---- MODULE Spec2Model ----
(***************************************************************************)
(* A model of multireql: the analyzer that flags every node of a Python    *)
(* syntax tree as a ReQL term or not (conversion_utils.IsReql), the case   *)
(* converters camel and dromedary, and the Ruby, JavaScript and Java       *)
(* converters that render a flagged tree as text.                          *)
(*                                                                         *)
(* Text is a TLA+ string; TLC evaluates \o, Len and SubSeq on strings.     *)
(* A syntax tree is a record with the same fields for every node kind:     *)
(*   kind   the ast class name                                             *)
(*   id     Name.id, Attribute.attr, keyword.arg, the operator of a        *)
(*          UnaryOp or BinOp, the value of a NameConstant                  *)
(*   s      the text of a Str                                              *)
(*   n      the number of a Num; the number of positional arguments of a   *)
(*          Call, of pairs of a Dict, of targets of an Assign              *)
(*   names  the parameter names of a Lambda, the operators of a Compare    *)
(*   bytes  the bytes of a Bytes                                           *)
(*   kids   the child nodes, in the order the fields are declared          *)
(* A node of the tree is named by its path: the child indexes from the     *)
(* root.                                                                   *)
(***************************************************************************)
EXTENDS Integers, Sequences, FiniteSets, TLC

(***************************************************************************)
(* Bounds of the model.                                                    *)
(***************************************************************************)
\* the longest identifier handed to camel and dromedary
MaxLen == 4
\* how many one-hole contexts are wrapped around a base expression
MaxWrap == 2
\* how many times convert is called on one Visitor object
MaxCalls == 2

(***************************************************************************)
(* Characters.                                                             *)
(***************************************************************************)
Lowers == "abcdefghijklmnopqrstuvwxyz"
Uppers == "ABCDEFGHIJKLMNOPQRSTUVWXYZ"
Digits == "0123456789"

CharAt(s, i) == SubSeq(s, i, i)
CharsOf(s) == {CharAt(s, i) : i \in 1..Len(s)}
IndexIn(s, c) == CHOOSE i \in 1..Len(s) : CharAt(s, i) = c

IsLower(c) == c \in CharsOf(Lowers)
IsUpper(c) == c \in CharsOf(Uppers)
IsDigit(c) == c \in CharsOf(Digits)
IsCased(c) == IsLower(c) \/ IsUpper(c)

\* str.upper and str.lower of one character
upper(c) == IF IsLower(c) THEN CharAt(Uppers, IndexIn(Lowers, c)) ELSE c
lower(c) == IF IsUpper(c) THEN CharAt(Lowers, IndexIn(Uppers, c)) ELSE c

RECURSIVE LowerAll(_)
LowerAll(s) == IF s = "" THEN "" ELSE lower(Head(s)) \o LowerAll(Tail(s))

\* str.title: a cased character is upper-cased when the character before it
\* is not cased, lower-cased otherwise.
RECURSIVE TitleFrom(_, _)
TitleFrom(s, prevCased) ==
    IF s = "" THEN ""
    ELSE LET c == Head(s) IN
         (IF prevCased THEN lower(c) ELSE upper(c))
             \o TitleFrom(Tail(s), IsCased(c))

title(s) == TitleFrom(s, FALSE)

\* str.split('_')
RECURSIVE SplitFrom(_, _)
SplitFrom(s, cur) ==
    IF s = "" THEN <<cur>>
    ELSE IF Head(s) = "_" THEN <<cur>> \o SplitFrom(Tail(s), "")
    ELSE SplitFrom(Tail(s), cur \o Head(s))

split(s) == SplitFrom(s, "")

endswith(s, c) == Len(s) > 0 /\ CharAt(s, Len(s)) = c

RECURSIVE JoinTitle(_)
JoinTitle(chunks) ==
    IF chunks = <<>> THEN "" ELSE title(Head(chunks)) \o JoinTitle(Tail(chunks))

(***************************************************************************)
(* conversion_utils.camel and dromedary.                                   *)
(***************************************************************************)
\* re.match(r'[A-Z][A-Z0-9_]*$|[a-z][a-z0-9_]*$', varname): anchored at the
\* start; $ matches at the end and before a newline that ends the string.
SnakeBody(s, first) ==
    LET core == IF Len(s) > 1 /\ endswith(s, "\n") THEN SubSeq(s, 1, Len(s) - 1)
                ELSE s
    IN  /\ Len(core) > 0
        /\ IF first = "upper" THEN IsUpper(Head(core)) ELSE IsLower(Head(core))
        /\ \A i \in 2..Len(core) :
              LET c == CharAt(core, i) IN
              \/ IF first = "upper" THEN IsUpper(c) ELSE IsLower(c)
              \/ IsDigit(c)
              \/ c = "_"

SnakeMatch(varname) == SnakeBody(varname, "upper") \/ SnakeBody(varname, "lower")

\* camel as it would be without the suffix
camel_no_suffix(varname) ==
    IF SnakeMatch(varname)
    THEN JoinTitle(split(varname))
    ELSE upper(Head(varname)) \o Tail(varname)

camel(varname) ==
    IF SnakeMatch(varname)
    THEN LET suffix == IF endswith(varname, "_") THEN "_" ELSE ""
         IN  JoinTitle(split(varname)) \o suffix
    ELSE upper(Head(varname)) \o Tail(varname)

dromedary(varname) ==
    IF SnakeMatch(varname)
    THEN LET chunks == split(varname)
             suffix == IF endswith(varname, "_") THEN "_" ELSE ""
         IN  LowerAll(chunks[1]) \o JoinTitle(Tail(chunks)) \o suffix
    ELSE lower(Head(varname)) \o Tail(varname)

(***************************************************************************)
(* Syntax trees.                                                           *)
(***************************************************************************)
Node(kind, id, s, n, names, bytes, kids) ==
    [kind |-> kind, id |-> id, s |-> s, n |-> n, names |-> names,
     bytes |-> bytes, kids |-> kids]

\* a field that holds None (an omitted slice bound)
Absent == Node("None", "", "", 0, <<>>, <<>>, <<>>)

Name(id) == Node("Name", id, "", 0, <<>>, <<>>, <<>>)
Num(n) == Node("Num", "", "", n, <<>>, <<>>, <<>>)
Str(s) == Node("Str", "", s, 0, <<>>, <<>>, <<>>)
Bytes(bs) == Node("Bytes", "", "", 0, <<>>, bs, <<>>)
NameConstant(v) == Node("NameConstant", v, "", 0, <<>>, <<>>, <<>>)
Attribute(value, attr) == Node("Attribute", attr, "", 0, <<>>, <<>>, <<value>>)
keyword(arg, value) == Node("keyword", arg, "", 0, <<>>, <<>>, <<value>>)
Call(func, args, keywords) ==
    Node("Call", "", "", Len(args), <<>>, <<>>, <<func>> \o args \o keywords)
Index(value) == Node("Index", "", "", 0, <<>>, <<>>, <<value>>)
Slice(lower_, upper_, step) ==
    Node("Slice", "", "", 0, <<>>, <<>>, <<lower_, upper_, step>>)
ExtSlice(dims) == Node("ExtSlice", "", "", 0, <<>>, <<>>, dims)
Subscript(value, slice) == Node("Subscript", "", "", 0, <<>>, <<>>, <<value, slice>>)
UnaryOp(op, operand) == Node("UnaryOp", op, "", 0, <<>>, <<>>, <<operand>>)
BinOp(left, op, right) == Node("BinOp", op, "", 0, <<>>, <<>>, <<left, right>>)
Compare(left, ops, comparators) ==
    Node("Compare", "", "", 0, ops, <<>>, <<left>> \o comparators)
List(elts) == Node("List", "", "", 0, <<>>, <<>>, elts)
Tuple(elts) == Node("Tuple", "", "", 0, <<>>, <<>>, elts)
Dict(keys, values) == Node("Dict", "", "", Len(keys), <<>>, <<>>, keys \o values)
Lambda(params, body) == Node("Lambda", "", "", 0, params, <<>>, <<body>>)
Assign(targets, value) ==
    Node("Assign", "", "", Len(targets), <<>>, <<>>, targets \o <<value>>)
\* a kind neither the analyzer nor the converters have a method for
IfExp(test, body, orelse) == Node("IfExp", "", "", 0, <<>>, <<>>, <<test, body, orelse>>)

\* the fields of the nodes, by name
func(node) == node.kids[1]
args(node) == SubSeq(node.kids, 2, node.n + 1)
keywords(node) == SubSeq(node.kids, node.n + 2, Len(node.kids))
keys(node) == SubSeq(node.kids, 1, node.n)
values(node) == SubSeq(node.kids, node.n + 1, Len(node.kids))
targets(node) == SubSeq(node.kids, 1, node.n)
comparators(node) == Tail(node.kids)

\* the node at a path, and the paths of all nodes of a tree
RECURSIVE NodeAt(_, _)
NodeAt(tree, path) ==
    IF path = <<>> THEN tree ELSE NodeAt(tree.kids[Head(path)], Tail(path))

RECURSIVE PathsFrom(_, _)
PathsFrom(node, path) ==
    {path} \cup UNION {PathsFrom(node.kids[i], path \o <<i>>) :
                          i \in {j \in 1..Len(node.kids) : node.kids[j] # Absent}}

Paths(tree) == PathsFrom(tree, <<>>)

IsPrefix(p, q) == Len(p) <= Len(q) /\ SubSeq(q, 1, Len(p)) = p
Parent(p) == SubSeq(p, 1, Len(p) - 1)

(***************************************************************************)
(* conversion_utils.IsReql: the analyzer.  The flags of a tree are a        *)
(* function from the paths of the flagged nodes; a node no visit reached   *)
(* has no is_reql attribute and is not in its domain.  Beside is_reql a    *)
(* flag records the fields of the IsReql object whose method set it.       *)
(***************************************************************************)
NoFlags == [p \in {} |-> FALSE]

\* IsReql.__init__
IsReql(reql_vars, passed_to_reql) ==
    [reql_vars |-> IF reql_vars = {} THEN {"r"} ELSE reql_vars,
     passed_to_reql |-> passed_to_reql]

Flag(self, path, is_reql) ==
    path :> [is_reql |-> is_reql, reql_vars |-> self.reql_vars,
             passed_to_reql |-> self.passed_to_reql]

RECURSIVE IsReql_visit(_, _, _)

\* visits the children idxs of node, in order, with visitor pp
RECURSIVE IsReql_visit_each(_, _, _, _)
IsReql_visit_each(pp, node, path, idxs) ==
    IF idxs = <<>> THEN NoFlags
    ELSE IsReql_visit(pp, node.kids[Head(idxs)], path \o <<Head(idxs)>>)
            @@ IsReql_visit_each(pp, node, path, Tail(idxs))

Range(a, b) == [i \in 1..(b - a + 1) |-> a + i - 1]

IsReql_generic_visit(self, node, path) == Flag(self, path, FALSE)

IsReql_visit_Name(self, node, path) == Flag(self, path, node.id \in self.reql_vars)

IsReql_visit_Attribute(self, node, path) ==
    LET fv == IsReql_visit(self, node.kids[1], path \o <<1>>)
    IN  fv @@ Flag(self, path, fv[path \o <<1>>].is_reql)

\* visit_Lambda as it would be if the body were visited with the
\* passed_to_reql of self
IsReql_visit_Lambda_inherit(self, node, path) ==
    LET lambda_vars == {node.names[i] : i \in 1..Len(node.names)}
        body == IF self.passed_to_reql
                THEN IsReql(self.reql_vars \cup lambda_vars, self.passed_to_reql)
                ELSE IsReql(self.reql_vars, self.passed_to_reql)
    IN  Flag(self, path, self.passed_to_reql)
            @@ IsReql_visit(body, node.kids[1], path \o <<1>>)

\* visit_Lambda as it would be if the body never saw the parameter names
IsReql_visit_Lambda_unscoped(self, node, path) ==
    Flag(self, path, self.passed_to_reql)
        @@ IsReql_visit(IsReql(self.reql_vars, FALSE), node.kids[1], path \o <<1>>)

IsReql_visit_Lambda(self, node, path) ==
    LET lambda_vars == {node.names[i] : i \in 1..Len(node.names)}
        body == IF self.passed_to_reql
                THEN IsReql(self.reql_vars \cup lambda_vars, FALSE)
                ELSE IsReql(self.reql_vars, FALSE)
    IN  Flag(self, path, self.passed_to_reql)
            @@ IsReql_visit(body, node.kids[1], path \o <<1>>)

\* visit_Call as it would be if the arguments of an untagged call were
\* visited with the default root names, not those of self
IsReql_visit_Call_default(self, node, path) ==
    LET ff == IsReql_visit(self, func(node), path \o <<1>>)
        is_reql == ff[path \o <<1>>].is_reql
        pp == IF is_reql THEN IsReql(self.reql_vars, TRUE)
              ELSE IsReql({}, self.passed_to_reql)
        kwIdx == Range(node.n + 2, Len(node.kids))
        RECURSIVE kw(_)
        kw(idxs) ==
            IF idxs = <<>> THEN NoFlags
            ELSE Flag(self, path \o <<Head(idxs)>>, is_reql)
                   @@ IsReql_visit(pp, node.kids[Head(idxs)].kids[1],
                                   path \o <<Head(idxs), 1>>)
                   @@ kw(Tail(idxs))
    IN  ff @@ Flag(self, path, is_reql)
           @@ IsReql_visit_each(pp, node, path, Range(2, node.n + 1))
           @@ kw(kwIdx)

\* visit_Call as it would be if the arguments of an untagged call were
\* visited by a new IsReql object with passed_to_reql False, not by self
IsReql_visit_Call_fresh(self, node, path) ==
    LET ff == IsReql_visit(self, func(node), path \o <<1>>)
        is_reql == ff[path \o <<1>>].is_reql
        pp == IsReql(self.reql_vars, is_reql)
        kwIdx == Range(node.n + 2, Len(node.kids))
        RECURSIVE kw(_)
        kw(idxs) ==
            IF idxs = <<>> THEN NoFlags
            ELSE Flag(self, path \o <<Head(idxs)>>, is_reql)
                   @@ IsReql_visit(pp, node.kids[Head(idxs)].kids[1],
                                   path \o <<Head(idxs), 1>>)
                   @@ kw(Tail(idxs))
    IN  ff @@ Flag(self, path, is_reql)
           @@ IsReql_visit_each(pp, node, path, Range(2, node.n + 1))
           @@ kw(kwIdx)

IsReql_visit_Call(self, node, path) ==
    LET ff == IsReql_visit(self, func(node), path \o <<1>>)
        is_reql == ff[path \o <<1>>].is_reql
        pp == IF is_reql THEN IsReql(self.reql_vars, TRUE) ELSE self
        kwIdx == Range(node.n + 2, Len(node.kids))
        RECURSIVE kw(_)
        kw(idxs) ==
            IF idxs = <<>> THEN NoFlags
            ELSE Flag(self, path \o <<Head(idxs)>>, is_reql)
                   @@ IsReql_visit(pp, node.kids[Head(idxs)].kids[1],
                                   path \o <<Head(idxs), 1>>)
                   @@ kw(Tail(idxs))
    IN  ff @@ Flag(self, path, is_reql)
           @@ IsReql_visit_each(pp, node, path, Range(2, node.n + 1))
           @@ kw(kwIdx)

\* visit_Subscript with a new visitor, passed_to_reql unset, for the index
\* or slice of an untagged base
IsReql_visit_Subscript_reset(self, node, path) ==
    LET fv == IsReql_visit(self, node.kids[1], path \o <<1>>)
        is_reql == fv[path \o <<1>>].is_reql
        pp == IsReql(self.reql_vars, is_reql)
    IN  fv @@ Flag(self, path, is_reql)
           @@ IsReql_visit(pp, node.kids[2], path \o <<2>>)

IsReql_visit_Subscript(self, node, path) ==
    LET fv == IsReql_visit(self, node.kids[1], path \o <<1>>)
        is_reql == fv[path \o <<1>>].is_reql
        pp == IF is_reql THEN IsReql(self.reql_vars, TRUE) ELSE self
    IN  fv @@ Flag(self, path, is_reql)
           @@ IsReql_visit(pp, node.kids[2], path \o <<2>>)

IsReql_visit_Index(self, node, path) ==
    LET pp == IsReql(self.reql_vars, FALSE)
    IN  IsReql_visit(pp, node.kids[1], path \o <<1>>)
           @@ Flag(self, path, self.passed_to_reql)

IsReql_visit_Slice(self, node, path) ==
    LET pp == IsReql(self.reql_vars, FALSE)
        part(i) == IF node.kids[i] # Absent
                   THEN IsReql_visit(pp, node.kids[i], path \o <<i>>)
                   ELSE NoFlags
    IN  part(1) @@ part(3) @@ part(2) @@ Flag(self, path, self.passed_to_reql)

\* visit_BinOp as it would be without the test of the operator
IsReql_visit_BinOp_anyop(self, node, path) ==
    LET fl == IsReql_visit(self, node.kids[1], path \o <<1>>)
        fr == IsReql_visit(self, node.kids[2], path \o <<2>>)
    IN  fl @@ fr @@
        Flag(self, path, fl[path \o <<1>>].is_reql \/ fr[path \o <<2>>].is_reql)

IsReql_visit_BinOp(self, node, path) ==
    LET fl == IsReql_visit(self, node.kids[1], path \o <<1>>)
        fr == IsReql_visit(self, node.kids[2], path \o <<2>>)
    IN  fl @@ fr @@
        Flag(self, path,
             node.id # "Pow" /\ (fl[path \o <<1>>].is_reql \/ fr[path \o <<2>>].is_reql))

IsReql_visit_Compare(self, node, path) ==
    LET fs == IsReql_visit_each(self, node, path, Range(1, Len(node.kids)))
    IN  fs @@ Flag(self, path,
                   \E i \in 1..Len(node.kids) : fs[path \o <<i>>].is_reql)

IsReql_visit_UnaryOp(self, node, path) ==
    LET fo == IsReql_visit(self, node.kids[1], path \o <<1>>)
    IN  fo @@ Flag(self, path, fo[path \o <<1>>].is_reql)

\* visit_List as it would be if the elements were visited by a new IsReql
\* object with passed_to_reql False
IsReql_visit_List_fresh(self, node, path) ==
    Flag(self, path, FALSE)
        @@ IsReql_visit_each(IsReql(self.reql_vars, FALSE), node, path,
                             Range(1, Len(node.kids)))

IsReql_visit_List(self, node, path) ==
    Flag(self, path, FALSE)
        @@ IsReql_visit_each(self, node, path, Range(1, Len(node.kids)))

IsReql_visit_Tuple(self, node, path) == IsReql_visit_List(self, node, path)

\* zip(node.keys, node.values): key i, then value i
IsReql_visit_Dict(self, node, path) ==
    LET RECURSIVE pairs(_)
        pairs(i) ==
            IF i > node.n THEN NoFlags
            ELSE IsReql_visit(self, node.kids[i], path \o <<i>>)
                   @@ IsReql_visit(self, node.kids[node.n + i], path \o <<node.n + i>>)
                   @@ pairs(i + 1)
    IN  Flag(self, path, FALSE) @@ pairs(1)

\* ast.NodeVisitor.visit: the method named after the node's class, or
\* generic_visit
IsReql_visit(self, node, path) ==
    CASE node.kind = "Name" -> IsReql_visit_Name(self, node, path)
      [] node.kind = "Attribute" -> IsReql_visit_Attribute(self, node, path)
      [] node.kind = "Lambda" -> IsReql_visit_Lambda(self, node, path)
      [] node.kind = "Call" -> IsReql_visit_Call(self, node, path)
      [] node.kind = "Subscript" -> IsReql_visit_Subscript(self, node, path)
      [] node.kind = "Index" -> IsReql_visit_Index(self, node, path)
      [] node.kind = "Slice" -> IsReql_visit_Slice(self, node, path)
      [] node.kind = "BinOp" -> IsReql_visit_BinOp(self, node, path)
      [] node.kind = "Compare" -> IsReql_visit_Compare(self, node, path)
      [] node.kind = "UnaryOp" -> IsReql_visit_UnaryOp(self, node, path)
      [] node.kind = "List" -> IsReql_visit_List(self, node, path)
      [] node.kind = "Tuple" -> IsReql_visit_Tuple(self, node, path)
      [] node.kind = "Dict" -> IsReql_visit_Dict(self, node, path)
      [] OTHER -> IsReql_generic_visit(self, node, path)

add_is_reql_flags(node) == IsReql_visit(IsReql({}, FALSE), node, <<>>)

(***************************************************************************)
(* What a visit of a converter leaves behind: the text it wrote to         *)
(* self.out, the exception it raised (exc is "" when it returned), and     *)
(* the operators it looked up in a table of ReQL method names.             *)
(***************************************************************************)
Wrote(txt) == [txt |-> txt, exc |-> "", msg |-> "", look |-> {}]
Raise(exc, msg) == [txt |-> "", exc |-> exc, msg |-> msg, look |-> {}]
Nothing == Wrote("")

\* a, then b unless a raised
Then(a, b) ==
    IF a.exc # "" THEN a
    ELSE [txt |-> a.txt \o b.txt, exc |-> b.exc, msg |-> b.msg,
          look |-> a.look \cup b.look]

RECURSIVE Steps(_)
Steps(rs) == IF rs = <<>> THEN Nothing ELSE Then(Head(rs), Steps(Tail(rs)))

\* table[op], written; KeyError when op is no key
Lookup(table, op) ==
    IF op \in DOMAIN table THEN Wrote(table[op]) ELSE Raise("KeyError", op)

\* the same for a table of ReQL method names
LookupReql(table, op) == [Lookup(table, op) EXCEPT !.look = {op}]

HasFlag(fl, path) == path \in DOMAIN fl
NoAttr(attr) == Raise("AttributeError", attr)

\* repr of one character inside a string literal
ReprChar(c) ==
    CASE c = "\\" -> "\\\\"
      [] c = "\n" -> "\\n"
      [] c = "\t" -> "\\t"
      [] c = "\r" -> "\\r"
      [] c = "\f" -> "\\x0c"
      [] OTHER -> c

RECURSIVE ReprBody(_, _)
ReprBody(s, quote) ==
    IF s = "" THEN ""
    ELSE (IF Head(s) = quote THEN "\\" \o quote ELSE ReprChar(Head(s)))
            \o ReprBody(Tail(s), quote)

\* repr(s) of a str: single quotes, unless s holds a ' and no "
repr(s) ==
    LET quote == IF "'" \in CharsOf(s) /\ "\"" \notin CharsOf(s) THEN "\"" ELSE "'"
    IN  quote \o ReprBody(s, quote) \o quote

\* the characters of the byte values 32 to 95 and 97 to 126; the backquote,
\* 96, cannot be written in a string of this module, and no bytes of the
\* model hold it
AsciiLow ==
    " !\"#$%&'()*+,-./0123456789:;<=>?@ABCDEFGHIJKLMNOPQRSTUVWXYZ[\\]^_"
AsciiHigh == "abcdefghijklmnopqrstuvwxyz{|}~"

AsciiChar(b) == IF b < 96 THEN CharAt(AsciiLow, b - 31) ELSE CharAt(AsciiHigh, b - 96)

HexDigit(n) == CharAt("0123456789abcdef", n + 1)

\* repr of one byte inside a bytes literal
ReprByte(b, quote) ==
    CASE b = 92 -> "\\\\"
      [] b = 9 -> "\\t"
      [] b = 10 -> "\\n"
      [] b = 13 -> "\\r"
      [] b \in (32..126) \ {92, 96} ->
            IF AsciiChar(b) = quote THEN "\\" \o quote ELSE AsciiChar(b)
      [] b \in (0..31) \ {9, 10, 13} \/ b \in 127..255 ->
            "\\x" \o HexDigit(b \div 16) \o HexDigit(b % 16)

RECURSIVE ReprBytesBody(_, _)
ReprBytesBody(bs, quote) ==
    IF bs = <<>> THEN ""
    ELSE ReprByte(Head(bs), quote) \o ReprBytesBody(Tail(bs), quote)

\* repr(s).strip('b') of a bytes: the literal without its b prefix
repr_bytes(bs) ==
    LET has(b) == \E i \in 1..Len(bs) : bs[i] = b
        quote == IF has(39) /\ ~has(34) THEN "\"" ELSE "'"
    IN  quote \o ReprBytesBody(bs, quote) \o quote

\* repr(n), str(n) of an int
str(n) == ToString(n)

BinOpNative ==
    [Add |-> " + ", Sub |-> " - ", Mult |-> " * ", Div |-> " / ", Mod |-> " % ",
     Pow |-> " ** "]
BinOpReql ==
    [Add |-> "add", Sub |-> "sub", Mult |-> "mul", Div |-> "div", Mod |-> "mod"]
CompareNative ==
    [Lt |-> " < ", Gt |-> " > ", GtE |-> " >= ", LtE |-> " <= ", Eq |-> " == ",
     NotEq |-> " != "]
CompareReql ==
    [Lt |-> "lt", Gt |-> "gt", GtE |-> "ge", LtE |-> "le", Eq |-> "eq",
     NotEq |-> "ne"]
UnaryNative == [USub |-> "-", Not |-> "!", UAdd |-> "+", Invert |-> "~"]

(***************************************************************************)
(* ruby_converter.Visitor                                                  *)
(***************************************************************************)
RECURSIVE rb_visit(_, _, _)

\* Visitor.join
RECURSIVE rb_join(_, _, _, _, _)
rb_join(fl, sep, node, path, idxs) ==
    IF idxs = <<>> THEN Nothing
    ELSE Steps(<<rb_visit(fl, node.kids[Head(idxs)], path \o <<Head(idxs)>>),
                 IF Tail(idxs) = <<>> THEN Nothing ELSE Wrote(sep),
                 rb_join(fl, sep, node, path, Tail(idxs))>>)

\* the visit of a field that may hold None: visit(None) ends in
\* generic_visit, whose ast.dump(None) raises TypeError
rb_visit_field(fl, node, path, i) ==
    IF node.kids[i] = Absent THEN Raise("TypeError", "expected AST, got NoneType")
    ELSE rb_visit(fl, node.kids[i], path \o <<i>>)

rb_to_str(s) == Wrote(repr(s))

rb_to_args(fl, node, path, idxs) ==
    IF idxs = <<>> THEN Nothing
    ELSE Steps(<<Wrote("("), rb_join(fl, ", ", node, path, idxs), Wrote(")")>>)

rb_generic_visit(fl, node, path) ==
    Raise("Exception", "Don't know what this thing is")

rb_skip(message) == Raise("Exception", message)

rb_visit_keyword(fl, node, path) ==
    Steps(<<Wrote(node.id), Wrote(": "), rb_visit(fl, node.kids[1], path \o <<1>>)>>)

rb_visit_Assign(fl, node, path) ==
    IF node.n # 1 THEN Raise("Exception", "We only support assigning to one variable")
    ELSE IF node.kids[1].kind # "Name" THEN NoAttr("id")
    ELSE Steps(<<Wrote(node.kids[1].id), Wrote(" = "),
                 rb_visit(fl, node.kids[2], path \o <<2>>)>>)

rb_visit_Str(fl, node, path) == rb_to_str(node.s)

rb_visit_Bytes(fl, node, path) ==
    Then(Wrote(repr_bytes(node.bytes)), Wrote(".force_encoding('BINARY')"))

rb_visit_Name(fl, node, path) ==
    IF node.id = "frozenset" THEN rb_skip("can't convert frozensets")
    ELSE Wrote(CASE node.id = "True" -> "true"
                 [] node.id = "False" -> "false"
                 [] node.id = "None" -> "nil"
                 [] OTHER -> node.id)

rb_visit_NameConstant(fl, node, path) ==
    Wrote(CASE node.id = "None" -> "nil"
            [] node.id = "True" -> "true"
            [] node.id = "False" -> "false"
            [] OTHER -> node.id)

rb_visit_Attribute(fl, node, path) ==
    Steps(<<rb_visit(fl, node.kids[1], path \o <<1>>), Wrote("."), Wrote(node.id)>>)

rb_visit_Num(fl, node, path) == Wrote(str(node.n))

rb_visit_Index(fl, node, path) == rb_visit(fl, node.kids[1], path \o <<1>>)

\* visit_Call as it would be if a last argument that is a lambda were
\* written with the other arguments
rb_visit_Call_inline(fl, node, path) ==
    LET f == func(node)
        callee == IF f.kind = "Attribute" /\ f.id = "expr"
                     /\ f.kids[1].kind = "Name" /\ f.kids[1].id = "r"
                  THEN rb_visit(fl, f.kids[1], path \o <<1, 1>>)
                  ELSE rb_visit(fl, f, path \o <<1>>)
    IN  Steps(<<callee, rb_to_args(fl, node, path, Range(2, Len(node.kids)))>>)

rb_visit_Call(fl, node, path) ==
    LET f == func(node)
        callee == IF f.kind = "Attribute" /\ f.id = "expr"
                     /\ f.kids[1].kind = "Name" /\ f.kids[1].id = "r"
                  THEN rb_visit(fl, f.kids[1], path \o <<1, 1>>)
                  ELSE rb_visit(fl, f, path \o <<1>>)
        kw == Range(node.n + 2, Len(node.kids))
    IN  IF node.n > 0 /\ node.kids[node.n + 1].kind = "Lambda"
        THEN Steps(<<callee,
                     rb_to_args(fl, node, path, Range(2, node.n) \o kw),
                     rb_visit(fl, node.kids[node.n + 1], path \o <<node.n + 1>>)>>)
        ELSE Steps(<<callee, rb_to_args(fl, node, path, Range(2, node.n + 1) \o kw)>>)

rb_visit_Dict(fl, node, path) ==
    LET RECURSIVE pairs(_)
        pairs(i) ==
            IF i > node.n THEN Nothing
            ELSE Steps(<<IF i > 1 THEN Wrote(", ") ELSE Nothing,
                         rb_visit(fl, node.kids[i], path \o <<i>>),
                         Wrote(" => "),
                         rb_visit(fl, node.kids[node.n + i], path \o <<node.n + i>>),
                         pairs(i + 1)>>)
    IN  Steps(<<Wrote("{"), pairs(1), Wrote("}")>>)

rb_visit_List(fl, node, path) ==
    Steps(<<Wrote("["), rb_join(fl, ", ", node, path, Range(1, Len(node.kids))),
            Wrote("]")>>)

rb_visit_Tuple(fl, node, path) == rb_visit_List(fl, node, path)

RECURSIVE JoinNames(_, _)
JoinNames(sep, names) ==
    IF names = <<>> THEN ""
    ELSE Head(names) \o (IF Tail(names) = <<>> THEN "" ELSE sep)
           \o JoinNames(sep, Tail(names))

rb_visit_Lambda(fl, node, path) ==
    Steps(<<Wrote("{|"), Wrote(JoinNames(", ", node.names)), Wrote("| "),
            rb_visit(fl, node.kids[1], path \o <<1>>), Wrote("}")>>)

rb_visit_Subscript(fl, node, path) ==
    LET slice == node.kids[2]
    IN  CASE slice.kind = "Index" ->
               Steps(<<rb_visit(fl, node.kids[1], path \o <<1>>), Wrote("["),
                       rb_visit(fl, slice.kids[1], path \o <<2, 1>>), Wrote("]")>>)
          [] slice.kind = "Slice" ->
               Steps(<<rb_visit(fl, node.kids[1], path \o <<1>>), Wrote("[("),
                       rb_visit_field(fl, slice, path \o <<2>>, 1),
                       IF slice.kids[2] # Absent
                       THEN Then(Wrote("..."), rb_visit(fl, slice.kids[2], path \o <<2, 2>>))
                       ELSE Wrote("..-1"),
                       Wrote(")]")>>)
          [] OTHER ->
               Then(rb_visit(fl, node.kids[1], path \o <<1>>),
                    Raise("Exception", "Not handling ExtSlice"))

rb_visit_UnaryOp(fl, node, path) ==
    Steps(<<Lookup(UnaryNative, node.id), rb_visit(fl, node.kids[1], path \o <<1>>)>>)

rb_visit_BinOp(fl, node, path) ==
    LET opMap == BinOpNative @@ [BitAnd |-> " & ", BitOr |-> " | "]
    IN  Steps(<<Wrote("("), rb_visit(fl, node.kids[1], path \o <<1>>),
                Lookup(opMap, node.id),
                rb_visit(fl, node.kids[2], path \o <<2>>), Wrote(")")>>)

\* zip(node.ops, node.comparators): left op right, joined by " && "
rb_visit_Compare(fl, node, path) ==
    LET RECURSIVE pairs(_)
        pairs(i) ==
            IF i > Len(node.names) \/ i + 1 > Len(node.kids) THEN Nothing
            ELSE Steps(<<IF i > 1 THEN Wrote(" && ") ELSE Nothing,
                         IF node.names[i] \in DOMAIN CompareNative THEN Nothing
                         ELSE Raise("KeyError", node.names[i]),
                         rb_visit(fl, node.kids[i], path \o <<i>>),
                         Lookup(CompareNative, node.names[i]),
                         rb_visit(fl, node.kids[i + 1], path \o <<i + 1>>),
                         pairs(i + 1)>>)
    IN  pairs(1)

rb_visit(fl, node, path) ==
    CASE node.kind = "Assign" -> rb_visit_Assign(fl, node, path)
      [] node.kind = "Str" -> rb_visit_Str(fl, node, path)
      [] node.kind = "Bytes" -> rb_visit_Bytes(fl, node, path)
      [] node.kind = "Name" -> rb_visit_Name(fl, node, path)
      [] node.kind = "NameConstant" -> rb_visit_NameConstant(fl, node, path)
      [] node.kind = "Attribute" -> rb_visit_Attribute(fl, node, path)
      [] node.kind = "Num" -> rb_visit_Num(fl, node, path)
      [] node.kind = "Index" -> rb_visit_Index(fl, node, path)
      [] node.kind = "Call" -> rb_visit_Call(fl, node, path)
      [] node.kind = "keyword" -> rb_visit_keyword(fl, node, path)
      [] node.kind = "Dict" -> rb_visit_Dict(fl, node, path)
      [] node.kind = "List" -> rb_visit_List(fl, node, path)
      [] node.kind = "Tuple" -> rb_visit_Tuple(fl, node, path)
      [] node.kind = "Lambda" -> rb_visit_Lambda(fl, node, path)
      [] node.kind = "Subscript" -> rb_visit_Subscript(fl, node, path)
      [] node.kind = "UnaryOp" -> rb_visit_UnaryOp(fl, node, path)
      [] node.kind = "BinOp" -> rb_visit_BinOp(fl, node, path)
      [] node.kind = "Compare" -> rb_visit_Compare(fl, node, path)
      [] OTHER -> rb_generic_visit(fl, node, path)

(***************************************************************************)
(* js_converter.Visitor                                                    *)
(***************************************************************************)
RECURSIVE js_visit(_, _, _)

RECURSIVE js_join(_, _, _, _, _)
js_join(fl, sep, node, path, idxs) ==
    IF idxs = <<>> THEN Nothing
    ELSE Steps(<<js_visit(fl, node.kids[Head(idxs)], path \o <<Head(idxs)>>),
                 IF Tail(idxs) = <<>> THEN Nothing ELSE Wrote(sep),
                 js_join(fl, sep, node, path, Tail(idxs))>>)

\* Visitor.wrap of one argument that may hold None
js_wrap_field(fl, node, path, i) ==
    IF node.kids[i] = Absent THEN Raise("Exception", "Bad argument to wrap")
    ELSE js_visit(fl, node.kids[i], path \o <<i>>)

js_to_str(s) == Wrote(repr(s))

js_generic_visit(fl, node, path) ==
    Raise("Exception", "Don't know what this thing is")

js_visit_Assign(fl, node, path) ==
    IF node.n # 1 THEN Raise("Exception", "We only support assigning to one variable")
    ELSE IF node.kids[1].kind # "Name" THEN Then(Wrote("var "), NoAttr("id"))
    ELSE Steps(<<Wrote("var "), Wrote(node.kids[1].id), Wrote(" = "),
                 js_visit(fl, node.kids[2], path \o <<2>>)>>)

js_visit_Str(fl, node, path) == js_to_str(node.s)

js_visit_Bytes(fl, node, path) ==
    Steps(<<Wrote("Buffer("), Wrote(repr_bytes(node.bytes)), Wrote(", 'binary')")>>)

js_visit_Name(fl, node, path) ==
    IF ~HasFlag(fl, path) THEN NoAttr("is_reql")
    ELSE IF fl[path].is_reql THEN Wrote(dromedary(node.id))
    ELSE Wrote(dromedary(node.id))

js_visit_NameConstant(fl, node, path) ==
    Wrote(CASE node.id = "None" -> "null"
            [] node.id = "True" -> "true"
            [] node.id = "False" -> "false"
            [] OTHER -> node.id)

js_visit_Attribute(fl, node, path) ==
    Steps(<<js_visit(fl, node.kids[1], path \o <<1>>), Wrote("."),
            IF ~HasFlag(fl, path) THEN NoAttr("is_reql")
            ELSE IF fl[path].is_reql THEN Wrote(dromedary(node.id))
            ELSE Wrote(node.id)>>)

js_visit_Num(fl, node, path) == Wrote(str(node.n))

js_visit_Index(fl, node, path) == js_visit(fl, node.kids[1], path \o <<1>>)

js_visit_Call(fl, node, path) ==
    LET kw == Range(node.n + 2, Len(node.kids))
    IN  Steps(<<js_visit(fl, func(node), path \o <<1>>), Wrote("("),
                js_join(fl, ", ", node, path, Range(2, node.n + 1)),
                IF kw = <<>> THEN Nothing
                ELSE Steps(<<IF node.n > 0 THEN Wrote(", ") ELSE Nothing,
                             Wrote("{"), js_join(fl, ", ", node, path, kw),
                             Wrote("}")>>),
                Wrote(")")>>)

js_visit_keyword(fl, node, path) ==
    Steps(<<IF ~HasFlag(fl, path) THEN NoAttr("is_reql")
            ELSE IF fl[path].is_reql THEN Wrote(dromedary(node.id))
            ELSE Wrote(node.id),
            Wrote(": "), js_visit(fl, node.kids[1], path \o <<1>>)>>)

\* self.write(k) of a key, which is a node and no string
js_visit_Dict(fl, node, path) ==
    IF node.n = 0 THEN Wrote("{}")
    ELSE Then(Wrote("{"), Raise("TypeError", "write of a node"))

js_visit_List(fl, node, path) ==
    Steps(<<Wrote("["), js_join(fl, ", ", node, path, Range(1, Len(node.kids))),
            Wrote("]")>>)

js_visit_Tuple(fl, node, path) == js_visit_List(fl, node, path)

js_visit_Lambda(fl, node, path) ==
    Steps(<<Wrote("function("), Wrote(JoinNames(", ", node.names)),
            Wrote(") { return "), js_visit(fl, node.kids[1], path \o <<1>>),
            Wrote(" }")>>)

js_visit_Subscript(fl, node, path) ==
    LET slice == node.kids[2]
        value == js_visit(fl, node.kids[1], path \o <<1>>)
    IN  CASE slice.kind = "Index" ->
               IF ~HasFlag(fl, path) THEN Then(value, NoAttr("is_reql"))
               ELSE IF fl[path].is_reql
               THEN Steps(<<value, Wrote("("),
                            js_visit(fl, slice.kids[1], path \o <<2, 1>>), Wrote(")")>>)
               ELSE Steps(<<value, Wrote("["),
                            js_visit(fl, slice.kids[1], path \o <<2, 1>>), Wrote("]")>>)
          [] slice.kind = "Slice" ->
               Steps(<<value, Wrote(".slice("),
                       js_wrap_field(fl, slice, path \o <<2>>, 1),
                       IF slice.kids[2] # Absent
                       THEN Then(Wrote(", "), js_visit(fl, slice.kids[2], path \o <<2, 2>>))
                       ELSE Nothing,
                       Wrote(")")>>)
          [] OTHER -> Then(value, Raise("Exception", "Not handling ExtSlice"))

js_visit_UnaryOp(fl, node, path) ==
    IF ~HasFlag(fl, path) THEN NoAttr("is_reql")
    ELSE IF fl[path].is_reql
    THEN IF node.id # "Not" THEN [Raise("KeyError", node.id) EXCEPT !.look = {node.id}]
         ELSE Steps(<<js_visit(fl, node.kids[1], path \o <<1>>), Wrote("."),
                      LookupReql([Not |-> "not"], node.id), Wrote("()")>>)
    ELSE IF node.id \notin DOMAIN UnaryNative THEN Raise("KeyError", node.id)
    ELSE Steps(<<Lookup(UnaryNative, node.id),
                 js_visit(fl, node.kids[1], path \o <<1>>)>>)

js_visit_BinOp(fl, node, path) ==
    IF ~HasFlag(fl, path) THEN NoAttr("is_reql")
    ELSE IF fl[path].is_reql
    THEN IF ~HasFlag(fl, path \o <<1>>) THEN NoAttr("is_reql")
         ELSE LET lift == ~fl[path \o <<1>>].is_reql IN
              Steps(<<IF lift THEN Wrote("r.expr(") ELSE Nothing,
                      js_visit(fl, node.kids[1], path \o <<1>>),
                      IF lift THEN Wrote(")") ELSE Nothing,
                      Wrote("."), LookupReql(BinOpReql, node.id), Wrote("("),
                      js_visit(fl, node.kids[2], path \o <<2>>), Wrote(")")>>)
    ELSE Steps(<<js_visit(fl, node.kids[1], path \o <<1>>),
                 Lookup(BinOpNative, node.id),
                 js_visit(fl, node.kids[2], path \o <<2>>)>>)

\* js_visit_Compare testing the left side only
js_visit_Compare_left(fl, node, path) ==
    IF Len(node.kids) > 2 THEN Raise("RuntimeError", "Chained comparison not supported")
    ELSE IF ~HasFlag(fl, path \o <<1>>) THEN NoAttr("is_reql")
    ELSE LET op == node.names[1]
         IN  IF fl[path \o <<1>>].is_reql
             THEN IF op \notin DOMAIN CompareReql
                  THEN [Raise("KeyError", op) EXCEPT !.look = {op}]
                  ELSE Steps(<<Wrote("("), js_visit(fl, node.kids[1], path \o <<1>>),
                               Wrote(")."), LookupReql(CompareReql, op), Wrote("("),
                               js_visit(fl, node.kids[2], path \o <<2>>), Wrote(")")>>)
             ELSE IF op \notin DOMAIN CompareNative THEN Raise("KeyError", op)
                  ELSE Steps(<<js_visit(fl, node.kids[1], path \o <<1>>),
                               Lookup(CompareNative, op),
                               js_visit(fl, node.kids[2], path \o <<2>>)>>)

js_visit_Compare(fl, node, path) ==
    IF Len(node.kids) > 2 THEN Raise("RuntimeError", "Chained comparison not supported")
    ELSE IF ~HasFlag(fl, path \o <<1>>) THEN NoAttr("is_reql")
    ELSE IF ~fl[path \o <<1>>].is_reql /\ ~HasFlag(fl, path \o <<2>>)
    THEN NoAttr("is_reql")
    ELSE LET is_reql == fl[path \o <<1>>].is_reql \/ fl[path \o <<2>>].is_reql
             op == node.names[1]
         IN  IF is_reql
             THEN IF op \notin DOMAIN CompareReql
                  THEN [Raise("KeyError", op) EXCEPT !.look = {op}]
                  ELSE Steps(<<Wrote("("), js_visit(fl, node.kids[1], path \o <<1>>),
                               Wrote(")."), LookupReql(CompareReql, op), Wrote("("),
                               js_visit(fl, node.kids[2], path \o <<2>>), Wrote(")")>>)
             ELSE IF op \notin DOMAIN CompareNative THEN Raise("KeyError", op)
                  ELSE Steps(<<js_visit(fl, node.kids[1], path \o <<1>>),
                               Lookup(CompareNative, op),
                               js_visit(fl, node.kids[2], path \o <<2>>)>>)

js_visit(fl, node, path) ==
    CASE node.kind = "Assign" -> js_visit_Assign(fl, node, path)
      [] node.kind = "Str" -> js_visit_Str(fl, node, path)
      [] node.kind = "Bytes" -> js_visit_Bytes(fl, node, path)
      [] node.kind = "Name" -> js_visit_Name(fl, node, path)
      [] node.kind = "NameConstant" -> js_visit_NameConstant(fl, node, path)
      [] node.kind = "Attribute" -> js_visit_Attribute(fl, node, path)
      [] node.kind = "Num" -> js_visit_Num(fl, node, path)
      [] node.kind = "Index" -> js_visit_Index(fl, node, path)
      [] node.kind = "Call" -> js_visit_Call(fl, node, path)
      [] node.kind = "keyword" -> js_visit_keyword(fl, node, path)
      [] node.kind = "Dict" -> js_visit_Dict(fl, node, path)
      [] node.kind = "List" -> js_visit_List(fl, node, path)
      [] node.kind = "Tuple" -> js_visit_Tuple(fl, node, path)
      [] node.kind = "Lambda" -> js_visit_Lambda(fl, node, path)
      [] node.kind = "Subscript" -> js_visit_Subscript(fl, node, path)
      [] node.kind = "UnaryOp" -> js_visit_UnaryOp(fl, node, path)
      [] node.kind = "BinOp" -> js_visit_BinOp(fl, node, path)
      [] node.kind = "Compare" -> js_visit_Compare(fl, node, path)
      [] OTHER -> js_generic_visit(fl, node, path)

(***************************************************************************)
(* java_converter                                                          *)
(***************************************************************************)
JAVA_KEYWORDS ==
    {"abstract", "continue", "for", "new", "switch", "assert",
     "default", "goto", "package", "synchronized", "boolean", "do",
     "if", "private", "this", "break", "double", "implements",
     "protected", "throw", "byte", "else", "import", "public",
     "throws", "case", "enum", "instanceof", "return", "transient",
     "catch", "extends", "int", "short", "try", "char", "final",
     "interface", "static", "void", "class", "finally", "long",
     "strictfp", "volatile", "const", "float", "native", "super",
     "while"}

OBJECT_METHODS ==
    {"clone", "equals", "finalize", "hashCode", "getClass",
     "notify", "notifyAll", "wait", "toString"}

METHOD_ALIASES == [GET_FIELD |-> "g"]

attr_matches(root, name, node) ==
    node.kids[1].kind = "Name" /\ node.kids[1].id = root /\ node.id = name

is_name(name, node) == node.kind = "Name" /\ node.id = name

\* the kinds of node that have a field named value
HasValueField(node) ==
    node.kind \in {"Attribute", "Subscript", "Index", "keyword"}

\* escape_string, one character, with the \xHH of repr left as it is
EscapeChar_short(c) ==
    LET rpr == ReprChar(c)
    IN  IF rpr = "\"" THEN "\\\"" ELSE rpr

\* escape_string, one character: repr(codepoint)[1:-1], \xHH widened to
\* \u00HH, the double quote escaped
EscapeChar(c) ==
    LET rpr == ReprChar(c)
    IN  IF Len(rpr) >= 2 /\ SubSeq(rpr, 1, 2) = "\\x"
        THEN "\\u00" \o SubSeq(rpr, 3, Len(rpr))
        ELSE IF rpr = "\"" THEN "\\\"" ELSE rpr

RECURSIVE EscapeBody(_)
EscapeBody(s) == IF s = "" THEN "" ELSE EscapeChar(Head(s)) \o EscapeBody(Tail(s))

escape_string(s) == "\"" \o EscapeBody(s) \o "\""

\* py_to_java_type of what Visitor.__init__ is given here: None, which it
\* returns as None, or a string, which it returns as it is
NoType == "<None>"
py_to_java_type(py_type) == py_type

\* Visitor.__init__ and ReQLVisitor(...): the fields of the object, with
\* the class whose methods it has
Visitor(type_, smart_bracket) ==
    [cls |-> "Visitor", type |-> py_to_java_type(type_), is_def |-> FALSE,
     smart_bracket |-> smart_bracket]
ReQLVisitor(type_, is_def) ==
    [cls |-> "ReQLVisitor", type |-> py_to_java_type(type_), is_def |-> is_def,
     smart_bracket |-> TRUE]

RECURSIVE java_visit(_, _, _, _)
RECURSIVE java_visit_Attribute(_, _, _, _, _)

java_skip(message) == Raise("RuntimeError", message)

RECURSIVE java_join(_, _, _, _, _, _)
java_join(self, fl, sep, node, path, idxs) ==
    IF idxs = <<>> THEN Nothing
    ELSE Steps(<<java_visit(self, fl, node.kids[Head(idxs)], path \o <<Head(idxs)>>),
                 IF Tail(idxs) = <<>> THEN Nothing ELSE Wrote(sep),
                 java_join(self, fl, sep, node, path, Tail(idxs))>>)

java_to_str(s) == Wrote(escape_string(s))

\* arg.value == "None" compares the value of a NameConstant (None, True or
\* False) with a string, and is false
java_cast_null(self, fl, arg, path) ==
    Then(IF (arg.kind = "Name" /\ arg.id = "null")
            \/ (arg.kind = "NameConstant" /\ FALSE)
         THEN Wrote("(ReqlExpr) ") ELSE Nothing,
         java_visit(self, fl, arg, path))

RECURSIVE java_cast_each(_, _, _, _, _)
java_cast_each(self, fl, node, path, idxs) ==
    IF idxs = <<>> THEN Nothing
    ELSE Steps(<<java_cast_null(self, fl, node.kids[Head(idxs)], path \o <<Head(idxs)>>),
                 IF Tail(idxs) = <<>> THEN Nothing ELSE Wrote(", "),
                 java_cast_each(self, fl, node, path, Tail(idxs))>>)

RECURSIVE java_optargs(_, _, _, _, _)
java_optargs(self, fl, node, path, idxs) ==
    IF idxs = <<>> THEN Nothing
    ELSE Steps(<<Wrote(".optArg("), java_to_str(node.kids[Head(idxs)].id), Wrote(", "),
                 java_visit(self, fl, node.kids[Head(idxs)].kids[1],
                            path \o <<Head(idxs), 1>>),
                 Wrote(")"),
                 java_optargs(self, fl, node, path, Tail(idxs))>>)

\* Visitor.to_args(args, optargs), the arguments being children of node
java_to_args(self, fl, node, path, argIdx, optIdx) ==
    Steps(<<Wrote("("), java_cast_each(self, fl, node, path, argIdx), Wrote(")"),
            java_optargs(self, fl, node, path, optIdx)>>)

java_generic_visit(self, fl, node, path) ==
    Raise("RuntimeError", "Don't know what this thing is")

\* the RuntimeError for several targets is built and not raised
java_visit_Assign(self, fl, node, path) ==
    IF self.type = NoType THEN Raise("TypeError", "NoneType + str")
    ELSE IF node.kids[1].kind # "Name" THEN Then(Wrote(self.type \o " "), NoAttr("id"))
    ELSE Steps(<<Wrote(self.type \o " "), Wrote(node.kids[1].id), Wrote(" = ("),
                 Wrote(self.type), Wrote(") ("),
                 IF ~HasFlag(fl, path) THEN NoAttr("is_reql")
                 ELSE IF fl[path].is_reql
                 THEN java_visit(ReQLVisitor(self.type, TRUE), fl,
                                 node.kids[Len(node.kids)], path \o <<Len(node.kids)>>)
                 ELSE java_visit(self, fl, node.kids[Len(node.kids)],
                                 path \o <<Len(node.kids)>>),
                 Wrote(");")>>)

java_visit_Str(self, fl, node, path) == java_to_str(node.s)

\* one byte of a Bytes, written as it is
JavaByte_unsigned(byte) == str(byte)

\* one byte of a Bytes, as a signed Java byte
JavaByte(byte) == IF byte > 127 THEN str(-(256 - byte)) ELSE str(byte)

RECURSIVE JavaBytes(_)
JavaBytes(bs) ==
    IF bs = <<>> THEN ""
    ELSE JavaByte(Head(bs)) \o (IF Tail(bs) = <<>> THEN "" ELSE ", ")
           \o JavaBytes(Tail(bs))

java_visit_Bytes(self, fl, node, path) ==
    Steps(<<Wrote("new byte[]{"), Wrote(JavaBytes(node.bytes)), Wrote("}")>>)

java_visit_Name(self, fl, node, path) ==
    IF node.id = "frozenset" THEN java_skip("can't convert frozensets to GroupedData yet")
    ELSE LET name == IF node.id \in JAVA_KEYWORDS \/ node.id \in OBJECT_METHODS
                     THEN node.id \o "_" ELSE node.id
         IN  Wrote(CASE name = "True" -> "true"
                     [] name = "False" -> "false"
                     [] name = "None" -> "null"
                     [] name = "nil" -> "null"
                     [] OTHER -> name)

java_visit_NameConstant(self, fl, node, path) ==
    CASE node.id = "None" -> Wrote("null")
      [] node.id = "True" -> Wrote("true")
      [] node.id = "False" -> Wrote("false")
      [] OTHER -> Raise("RuntimeError", "Don't know NameConstant")

Visitor_visit_Attribute(self, fl, node, path, emit_parens) ==
    LET skip_parent == attr_matches("r", "ast", node)
    IN  Steps(<<IF ~skip_parent
                THEN Then(java_visit(self, fl, node.kids[1], path \o <<1>>), Wrote("."))
                ELSE Nothing,
                Wrote(dromedary(node.id))>>)

\* Num.n is an int here, and every int of the model is in the range of a
\* Java long
java_visit_Num(self, fl, node, path) == Then(Wrote(str(node.n)), Wrote("L"))

java_visit_Index(self, fl, node, path) ==
    java_visit(self, fl, node.kids[1], path \o <<1>>)

StartsAt(s, i, w) == i + Len(w) - 1 <= Len(s) /\ SubSeq(s, i, i + Len(w) - 1) = w
NoNewline(s, a, b) == \A k \in a..b : CharAt(s, k) # "\n"

\* re.compile('.*([Ee]xpect(ed|s)|Got) .* argument').match(s)
ArityMessage(s) ==
    \E i \in 1..Len(s) :
      \E w \in {"Expected", "Expects", "expected", "expects", "Got"} :
        /\ NoNewline(s, 1, i - 1)
        /\ StartsAt(s, i, w \o " ")
        /\ \E j \in (i + Len(w) + 1)..Len(s) :
              /\ NoNewline(s, i + Len(w) + 1, j - 1)
              /\ StartsAt(s, j, " argument")

\* Visitor.skip_if_arity_check: AttributeError and TypeError are passed
\* over, the IndexError of node.args[1] is not
java_skip_if_arity_check(node) ==
    IF func(node).kind # "Name" THEN Nothing
    ELSE IF func(node).id # "err" THEN Nothing
    ELSE IF node.n < 2 THEN Raise("IndexError", "list index out of range")
    ELSE IF node.kids[3].kind # "Str" THEN Nothing
    ELSE IF ArityMessage(node.kids[3].s)
    THEN java_skip("arity checks done by java type system")
    ELSE Nothing

\* whether Visitor.convert_if_string_encode gets past its try block
IsStringEncode(node) ==
    /\ func(node).kind = "Attribute"
    /\ func(node).id = "encode"
    /\ func(node).kids[1].kind \in {"Str", "Bytes"}
    /\ node.n >= 1
    /\ node.kids[2].kind \in {"Str", "Bytes"}

JavaEncoding == [ascii |-> "US_ASCII", utf16 |-> "UTF_16", utf8 |-> "UTF_8"]
EncodingKey(s) ==
    CASE s = "utf-8" -> "utf8" [] s = "utf-16" -> "utf16" [] OTHER -> s

java_convert_if_string_encode(self, fl, node, path) ==
    LET encoding == node.kids[2]
    IN  IF encoding.kind # "Str" \/ EncodingKey(encoding.s) \notin DOMAIN JavaEncoding
        THEN Raise("KeyError", encoding.s)
        ELSE Steps(<<java_visit(self, fl, func(node).kids[1], path \o <<1, 1>>),
                     Wrote(".getBytes(StandardCharsets."),
                     Wrote(JavaEncoding[EncodingKey(encoding.s)]), Wrote(")")>>)

Visitor_visit_Call(self, fl, node, path) ==
    Then(java_skip_if_arity_check(node),
         IF IsStringEncode(node) THEN java_convert_if_string_encode(self, fl, node, path)
         ELSE Steps(<<IF func(node).kind = "Attribute" /\ func(node).id = "error"
                      THEN java_visit_Attribute(self, fl, func(node), path \o <<1>>, FALSE)
                      ELSE java_visit(self, fl, func(node), path \o <<1>>),
                      java_to_args(self, fl, node, path, Range(2, node.n + 1),
                                   Range(node.n + 2, Len(node.kids)))>>))

java_visit_Dict(self, fl, node, path) ==
    LET RECURSIVE pairs(_)
        pairs(i) ==
            IF i > node.n THEN Nothing
            ELSE Steps(<<IF i > 1 THEN Wrote(").with(") ELSE Nothing,
                         java_visit(self, fl, node.kids[i], path \o <<i>>),
                         Wrote(", "),
                         java_visit(self, fl, node.kids[node.n + i], path \o <<node.n + i>>),
                         pairs(i + 1)>>)
    IN  Steps(<<Wrote("r.hashMap("), pairs(1), Wrote(")")>>)

\* visit_List as it would be if it wrote brackets
java_visit_List_brackets(self, fl, node, path) ==
    Steps(<<Wrote("["),
            java_join(self, fl, ", ", node, path, Range(1, Len(node.kids))),
            Wrote("]")>>)

java_visit_List(self, fl, node, path) ==
    Steps(<<Wrote("r.array("),
            java_join(self, fl, ", ", node, path, Range(1, Len(node.kids))),
            Wrote(")")>>)

java_visit_Tuple(self, fl, node, path) == java_visit_List(self, fl, node, path)

\* one parameter is written bare, several by to_args
java_visit_Lambda(self, fl, node, path) ==
    Steps(<<IF Len(node.names) = 1 THEN Wrote(node.names[1])
            ELSE Wrote("(" \o JoinNames(", ", node.names) \o ")"),
            Wrote(" -> "), java_visit(self, fl, node.kids[1], path \o <<1>>)>>)

Visitor_visit_Subscript(self, fl, node, path) ==
    LET slice == node.kids[2]
    IN  IF slice.kind # "Index" THEN NoAttr("value")
        ELSE IF slice.kids[1].kind # "Num"
        THEN IF slice.kids[1].kind \in {"Str", "Bytes"}
             THEN Raise("RuntimeError", "Only integers subscript can be converted.")
             ELSE NoAttr("s")
        ELSE Steps(<<java_visit(self, fl, node.kids[1], path \o <<1>>), Wrote(".get("),
                     Wrote(str(slice.kids[1].n)), Wrote(")")>>)

Visitor_visit_UnaryOp(self, fl, node, path) ==
    Steps(<<Lookup(UnaryNative, node.id), java_visit(self, fl, node.kids[1], path \o <<1>>)>>)

java_visit_Compare(self, fl, node, path) ==
    IF Len(node.kids) > 2 THEN Raise("RuntimeError", "Chained comparison not supported")
    ELSE IF ~HasFlag(fl, path \o <<1>>) THEN NoAttr("is_reql")
    ELSE IF ~fl[path \o <<1>>].is_reql /\ ~HasFlag(fl, path \o <<2>>)
    THEN NoAttr("is_reql")
    ELSE LET is_reql == fl[path \o <<1>>].is_reql \/ fl[path \o <<2>>].is_reql
             op == node.names[1]
         IN  IF is_reql
             THEN IF op \notin DOMAIN CompareReql
                  THEN [Raise("KeyError", op) EXCEPT !.look = {op}]
                  ELSE Steps(<<Wrote("("), java_visit(self, fl, node.kids[1], path \o <<1>>),
                               Wrote(")."), LookupReql(CompareReql, op), Wrote("("),
                               java_visit(self, fl, node.kids[2], path \o <<2>>),
                               Wrote(")")>>)
             ELSE IF op \notin DOMAIN CompareNative THEN Raise("KeyError", op)
                  ELSE Steps(<<java_visit(self, fl, node.kids[1], path \o <<1>>),
                               Lookup(CompareNative, op),
                               java_visit(self, fl, node.kids[2], path \o <<2>>)>>)

\* visit_BinOp as it would be if it never wrapped the left operand
java_visit_BinOp_unlifted(self, fl, node, path) ==
    IF ~HasFlag(fl, path) THEN NoAttr("is_reql")
    ELSE IF fl[path].is_reql
    THEN Steps(<<java_visit(self, fl, node.kids[1], path \o <<1>>),
                 Wrote("."), LookupReql(BinOpReql, node.id), Wrote("("),
                 java_visit(self, fl, node.kids[2], path \o <<2>>), Wrote(")")>>)
    ELSE Steps(<<java_visit(self, fl, node.kids[1], path \o <<1>>),
                 Lookup(BinOpNative, node.id),
                 java_visit(self, fl, node.kids[2], path \o <<2>>)>>)

java_visit_BinOp(self, fl, node, path) ==
    IF ~HasFlag(fl, path) THEN NoAttr("is_reql")
    ELSE IF fl[path].is_reql
    THEN IF ~HasFlag(fl, path \o <<1>>) THEN NoAttr("is_reql")
         ELSE LET lift == ~fl[path \o <<1>>].is_reql IN
              Steps(<<IF lift THEN Wrote("r.expr(") ELSE Nothing,
                      java_visit(self, fl, node.kids[1], path \o <<1>>),
                      IF lift THEN Wrote(")") ELSE Nothing,
                      Wrote("."), LookupReql(BinOpReql, node.id), Wrote("("),
                      java_visit(self, fl, node.kids[2], path \o <<2>>), Wrote(")")>>)
    ELSE Steps(<<java_visit(self, fl, node.kids[1], path \o <<1>>),
                 Lookup(BinOpNative, node.id),
                 java_visit(self, fl, node.kids[2], path \o <<2>>)>>)

(***************************************************************************)
(* java_converter.ReQLVisitor: the methods it overrides                    *)
(***************************************************************************)
\* get_bound of get_slice_bounds: the number, or the exception
get_bound(bound, default) ==
    IF bound = Absent THEN [n |-> default, exc |-> ""]
    ELSE IF bound.kind = "UnaryOp" /\ bound.id = "USub"
    THEN IF bound.kids[1].kind = "Num" THEN [n |-> -bound.kids[1].n, exc |-> ""]
         ELSE [n |-> 0, exc |-> "AttributeError"]
    ELSE IF bound.kind = "Num" THEN [n |-> bound.n, exc |-> ""]
    ELSE [n |-> 0, exc |-> "RuntimeError"]

\* get_slice_bounds as it would be if right_closed came from the lower bound
get_slice_bounds_by_lower(slc) ==
    [lower |-> get_bound(slc.kids[1], 0), upper |-> get_bound(slc.kids[2], -1),
     right_closed |-> slc.kids[1] = Absent]

get_slice_bounds(slc) ==
    [lower |-> get_bound(slc.kids[1], 0), upper |-> get_bound(slc.kids[2], -1),
     right_closed |-> slc.kids[2] = Absent]

ReQLVisitor_visit_Subscript(self, fl, node, path) ==
    LET slice == node.kids[2]
        value == java_visit(self, fl, node.kids[1], path \o <<1>>)
    IN  CASE slice.kind = "Index" ->
               Steps(<<value,
                       IF self.smart_bracket /\ slice.kids[1].kind = "Str"
                       THEN Wrote(".g(")
                       ELSE IF self.smart_bracket /\ slice.kids[1].kind = "Num"
                       THEN Wrote(".nth(")
                       ELSE Wrote(".bracket("),
                       java_visit(self, fl, slice.kids[1], path \o <<2, 1>>),
                       Wrote(")")>>)
          [] slice.kind = "Slice" ->
               LET b == get_slice_bounds(slice) IN
               Steps(<<value, Wrote(".slice("),
                       IF b.lower.exc # "" THEN Raise(b.lower.exc, "get_bound")
                       ELSE IF b.upper.exc # "" THEN Raise(b.upper.exc, "get_bound")
                       ELSE Steps(<<Wrote(str(b.lower.n)), Wrote(", "),
                                    Wrote(str(b.upper.n)), Wrote(")")>>),
                       IF b.right_closed
                       THEN Wrote(".optArg(\"right_bound\", \"closed\")")
                       ELSE Nothing>>)
          [] OTHER -> Then(value, Raise("RuntimeError", "No translation for ExtSlice"))

\* self.TOPLEVEL_CONSTANTS is no attribute of the object (the set is a
\* global of the module): reading it raises AttributeError
ReQLVisitor_visit_Attribute(self, fl, node, path, emit_parens) ==
    IF attr_matches("r", "row", node) THEN java_skip("Java driver doesn't support r.row")
    ELSE IF is_name("r", node.kids[1]) THEN NoAttr("TOPLEVEL_CONSTANTS")
    ELSE LET clash == CASE node.id = "or_" -> "or"
                        [] node.id = "and_" -> "and"
                        [] node.id = "not_" -> "not"
                        [] OTHER -> dromedary(node.id)
             initial == IF clash = dromedary("GET_FIELD")
                        THEN METHOD_ALIASES.GET_FIELD ELSE clash
         IN  Steps(<<java_visit(self, fl, node.kids[1], path \o <<1>>), Wrote("."),
                     Wrote(initial),
                     IF initial \in JAVA_KEYWORDS \cup OBJECT_METHODS
                     THEN Wrote("_") ELSE Nothing>>)

ReQLVisitor_visit_UnaryOp(self, fl, node, path) ==
    IF node.id = "Invert"
    THEN Then(java_visit(self, fl, node.kids[1], path \o <<1>>), Wrote(".not()"))
    ELSE Visitor_visit_UnaryOp(self, fl, node, path)

\* check of ReQLVisitor.visit_Call: "yes", "no", or the exception of
\* attr_matches on a func that has no field named value
MapArgCheck(arg) ==
    IF arg.kind = "Lambda" THEN "yes"
    ELSE IF arg.kind = "Call"
    THEN IF ~HasValueField(func(arg)) THEN "AttributeError"
         ELSE IF func(arg).kind = "Attribute" /\ attr_matches("r", "js", func(arg))
         THEN "yes"
         ELSE IF func(arg).kind # "Attribute" /\ is_name("r", func(arg).kids[1])
         THEN "AttributeError"
         ELSE "no"
    ELSE IF arg.kind \in {"Dict", "Name"} THEN "yes"
    ELSE "no"

ReQLVisitor_visit_Call(self, fl, node, path) ==
    Then(Visitor_visit_Call(self, fl, node, path),
         IF func(node).kind = "Attribute" /\ func(node).id = "for_each"
         THEN IF node.n = 0 THEN Raise("IndexError", "list index out of range")
              ELSE IF node.kids[2].kind # "Lambda"
              THEN java_skip("non-function arguments to forEach")
              ELSE Nothing
         ELSE IF func(node).kind = "Attribute" /\ func(node).id = "map"
         THEN IF node.n = 0 THEN Raise("IndexError", "list index out of range")
              ELSE LET c == MapArgCheck(node.kids[node.n + 1]) IN
                   IF c = "AttributeError" THEN NoAttr("value")
                   ELSE IF c = "no"
                   THEN java_skip("map contains a function argument")
                   ELSE Nothing
         ELSE Nothing)

(***************************************************************************)
(* The dispatch of visit, by the class of the object and the kind of node  *)
(***************************************************************************)
java_visit_Attribute(self, fl, node, path, emit_parens) ==
    IF self.cls = "ReQLVisitor"
    THEN ReQLVisitor_visit_Attribute(self, fl, node, path, emit_parens)
    ELSE Visitor_visit_Attribute(self, fl, node, path, emit_parens)

java_visit(self, fl, node, path) ==
    LET reql == self.cls = "ReQLVisitor" IN
    CASE node.kind = "Assign" -> java_visit_Assign(self, fl, node, path)
      [] node.kind = "Str" -> java_visit_Str(self, fl, node, path)
      [] node.kind = "Bytes" -> java_visit_Bytes(self, fl, node, path)
      [] node.kind = "Name" -> java_visit_Name(self, fl, node, path)
      [] node.kind = "NameConstant" -> java_visit_NameConstant(self, fl, node, path)
      [] node.kind = "Attribute" -> java_visit_Attribute(self, fl, node, path, TRUE)
      [] node.kind = "Num" -> java_visit_Num(self, fl, node, path)
      [] node.kind = "Index" -> java_visit_Index(self, fl, node, path)
      [] node.kind = "Call" /\ reql -> ReQLVisitor_visit_Call(self, fl, node, path)
      [] node.kind = "Call" /\ ~reql -> Visitor_visit_Call(self, fl, node, path)
      [] node.kind = "Dict" -> java_visit_Dict(self, fl, node, path)
      [] node.kind = "List" -> java_visit_List(self, fl, node, path)
      [] node.kind = "Tuple" -> java_visit_Tuple(self, fl, node, path)
      [] node.kind = "Lambda" -> java_visit_Lambda(self, fl, node, path)
      [] node.kind = "Subscript" /\ reql ->
            ReQLVisitor_visit_Subscript(self, fl, node, path)
      [] node.kind = "Subscript" /\ ~reql ->
            Visitor_visit_Subscript(self, fl, node, path)
      [] node.kind = "UnaryOp" /\ reql -> ReQLVisitor_visit_UnaryOp(self, fl, node, path)
      [] node.kind = "UnaryOp" /\ ~reql -> Visitor_visit_UnaryOp(self, fl, node, path)
      [] node.kind = "BinOp" -> java_visit_BinOp(self, fl, node, path)
      [] node.kind = "Compare" -> java_visit_Compare(self, fl, node, path)
      [] OTHER -> java_generic_visit(self, fl, node, path)

(***************************************************************************)
(* Visitor.convert, for the three converters: the visit appends to         *)
(* self.out, and convert returns all of self.out.                          *)
(***************************************************************************)
Langs == {"rb", "js", "java"}

\* converter.Visitor(): the object, with its empty buffer
NewVisitor(lang) == [lang |-> lang, out |-> "", calls |-> 0]

\* the visit of the root by the Visitor of a language, with its defaults
visit(lang, fl, node) ==
    CASE lang = "rb" -> rb_visit(fl, node, <<>>)
      [] lang = "js" -> js_visit(fl, node, <<>>)
      [] lang = "java" -> java_visit(Visitor(NoType, TRUE), fl, node, <<>>)
      [] lang = "reql" -> java_visit(ReQLVisitor(NoType, FALSE), fl, node, <<>>)

\* what a call returns: a text, or the exception it raised
Returned(text) == [raised |-> FALSE, text |-> text, exc |-> "", msg |-> ""]
Raised(exc, msg) == [raised |-> TRUE, text |-> "", exc |-> exc, msg |-> msg]

\* return self.out.getvalue(), after the visit r appended to the buffer of
\* object v: the object afterwards, what is returned, and the table lookups
\* of the visit
getvalue(v, r) ==
    [visitor |-> [v EXCEPT !.out = @ \o r.txt, !.calls = @ + 1],
     ret |-> IF r.exc = "" THEN Returned(v.out \o r.txt) ELSE Raised(r.exc, r.msg),
     look |-> r.look]

\* convert as it would be if each call started from an empty buffer
convert_from_empty(v, fl, node) ==
    getvalue([v EXCEPT !.out = ""], visit(v.lang, fl, node))

\* Visitor.convert on object v
convert(v, fl, node) == getvalue(v, visit(v.lang, fl, node))

(***************************************************************************)
(* multireql.py                                                            *)
(***************************************************************************)
transpile_snippet(fl, parsed_snippet, lang) ==
    convert(NewVisitor(lang), fl, parsed_snippet)

\* what transpile returns for the outcome c of the conversion: the text, or
\* None (none is TRUE) when the conversion raised. exc keeps, for the record,
\* what print(e) was given.
or_None(c) ==
    [none |-> c.ret.raised, text |-> c.ret.text, exc |-> c.ret.exc,
     msg |-> c.ret.msg, look |-> c.look]

transpile(fl, snippet, lang) == or_None(transpile_snippet(fl, snippet, lang))

\* parse_snippet, after ast.parse: the flags are added to the tree
parse_snippet(tree) == add_is_reql_flags(tree)

(***************************************************************************)
(* The snippets of the model: base expressions, with up to MaxWrap         *)
(* one-hole contexts wrapped around them, and the assignments of them.     *)
(***************************************************************************)
r_ == Name("r")
x_ == Name("x")

Atoms == {r_, x_, Num(1), Str("age")}

\* the expressions that have t as one child
Around(t) ==
    { Attribute(t, "get_field"),
      Call(Attribute(r_, "map"), <<t>>, <<>>),
      Call(Name("f"), <<t>>, <<>>),
      Call(t, <<>>, <<>>),
      Call(Attribute(r_, "m"), <<>>, <<keyword("k", t)>>),
      Call(Attribute(r_, "m"), <<Lambda(<<"x">>, x_), t>>, <<>>),
      Lambda(<<"x">>, t),
      List(<<t>>),
      Tuple(<<t, x_>>),
      Dict(<<Str("k")>>, <<t>>),
      Subscript(t, Index(Str("age"))),
      Subscript(t, Slice(UnaryOp("USub", Num(2)), Absent, Absent)),
      Subscript(r_, Index(t)),
      BinOp(t, "Add", Num(1)),
      BinOp(Num(1), "Sub", t),
      BinOp(t, "Pow", r_),
      Compare(t, <<"Gt">>, <<Num(18)>>),
      UnaryOp("Invert", t),
      IfExp(t, x_, r_) }

RECURSIVE Wrapped(_)
Wrapped(k) ==
    IF k = 0 THEN Atoms
    ELSE LET inner == Wrapped(k - 1) IN inner \cup UNION {Around(t) : t \in inner}

Expressions == Wrapped(MaxWrap)

\* the snippets of the scenarios:
\*   r.table('users').filter(lambda row: row['age'] > 18)
\*   r.map(f(lambda x: x))
\*   r.m(lambda x: x + 1, x + 1)
\*   data[-2:]
Scenarios ==
    { Call(Attribute(Call(Attribute(r_, "table"), <<Str("users")>>, <<>>), "filter"),
           <<Lambda(<<"row">>,
                    Compare(Subscript(Name("row"), Index(Str("age"))),
                            <<"Gt">>, <<Num(18)>>))>>, <<>>),
      Call(Attribute(r_, "map"),
           <<Call(Name("f"), <<Lambda(<<"x">>, x_)>>, <<>>)>>, <<>>),
      Call(Attribute(r_, "m"),
           <<Lambda(<<"x">>, BinOp(x_, "Add", Num(1))), BinOp(x_, "Add", Num(1))>>,
           <<>>),
      Subscript(Name("data"), Slice(UnaryOp("USub", Num(2)), Absent, Absent)) }

\* lists of up to three literals, among them [1, 2, 3]
Literals == {Num(1), Num(2), Num(3), Str("a"), NameConstant("True")}

LiteralLists ==
    {List(<<>>)} \cup {List(<<a>>) : a \in Literals}
        \cup {List(<<a, b>>) : a \in {Num(1), Str("a")}, b \in Literals}
        \cup {List(<<a, b, c>>) : a \in {Num(1), Str("a")}, b \in {Num(2), Str("a")},
                                   c \in Literals}

\* identifiers: the Java keywords, the methods of Object, and names that are
\* neither
PlainIdentifiers ==
    {"x", "data", "foo_bar", "get_class", "hash_code", "or_", "defaults", "Class"}

Identifiers == JAVA_KEYWORDS \cup OBJECT_METHODS \cup PlainIdentifiers

\* an identifier as a name, as an attribute, and as the method of a call
IdentifierUses ==
    UNION {{ Name(id),
             Attribute(x_, id),
             Call(Attribute(x_, id), <<Num(1)>>, <<>>),
             Call(Name(id), <<>>, <<>>) } : id \in Identifiers}

\* slices: each bound omitted, a number, a negated number, or something else
Bounds ==
    {Absent, Num(0), Num(2), UnaryOp("USub", Num(2)), UnaryOp("USub", Num(0)),
     x_, UnaryOp("UAdd", Num(1)), UnaryOp("USub", x_)}

Slices ==
    {Subscript(b, Slice(lo, up, st)) :
        b \in {Name("data"), x_}, lo \in Bounds, up \in Bounds,
        st \in {Absent, Num(2)}}

\* bytes literals, alone and as the argument of a call
ByteStrings == {<<>>, <<97>>, <<0, 127, 128, 255>>, <<39, 34, 92>>, <<39, 10>>}

\* every byte value but 96, which the strings of this module cannot hold
ByteValues == (0..255) \ {96}

ByteLiterals ==
    {Bytes(bs) : bs \in ByteStrings}
        \cup {Bytes(<<b>>) : b \in ByteValues}
        \cup {Call(Attribute(r_, "binary"), <<Bytes(bs)>>, <<>>) : bs \in ByteStrings}

\* snippets of the skip rules: frozenset, r.row, an arity check, and
\* for_each and map with an argument that is no function
SkipSnippets ==
    { Name("frozenset"),
      Call(Name("frozenset"), <<List(<<Num(1)>>)>>, <<>>),
      Attribute(r_, "row"),
      Subscript(Attribute(r_, "row"), Index(Str("age"))),
      Call(Name("err"), <<Str("ReqlCompileError"),
                          Str("Expected 1 argument but found 2.")>>, <<>>),
      Call(Name("err"), <<Str("ReqlQueryLogicError"), Str("Cannot divide.")>>, <<>>),
      Call(Attribute(x_, "for_each"), <<Num(1)>>, <<>>),
      Call(Attribute(x_, "for_each"), <<Lambda(<<"x">>, x_)>>, <<>>),
      Call(Attribute(x_, "map"), <<Num(1)>>, <<>>),
      Call(Attribute(x_, "map"), <<Lambda(<<"x">>, x_)>>, <<>>) }

\* calls with one and two positional arguments, among them the None
\* constant (a NameConstant, or the Name None of the older parser) and the
\* identifiers null and nil
NullArgs ==
    {NameConstant("None"), Name("None"), Name("null"), Name("nil"), Num(1),
     NameConstant("True")}

NullArgCalls ==
    {Call(Attribute(r_, "expr"), <<a>>, <<>>) : a \in NullArgs}
        \cup {Call(Attribute(x_, "branch"), <<a, b>>, <<>>) : a \in NullArgs, b \in NullArgs}

\* binary operations of every operator of the tables, and of one that is
\* in neither table, on tagged and untagged operands
Operands == {r_, x_, Num(1)}

BinOps ==
    {BinOp(left, op, right) :
        left \in Operands, right \in Operands,
        op \in DOMAIN BinOpNative \cup {"FloorDiv"}}

\* calls with up to two positional and up to two named arguments, the last
\* positional one a lambda or not
PositionalArgs ==
    {<<>>, <<Num(1)>>, <<Num(1), Str("a")>>, <<Lambda(<<"x">>, x_)>>,
     <<Num(1), Lambda(<<"x">>, x_)>>, <<Lambda(<<"x">>, x_), Num(1)>>}

NamedArgs ==
    {<<>>, <<keyword("k", Num(2))>>, <<keyword("k", Num(2)), keyword("foo_bar", Num(3))>>}

KeywordCalls ==
    {Call(f, a, k) : f \in {Attribute(r_, "m"), Name("f")}, a \in PositionalArgs,
                     k \in NamedArgs}

\* comparisons with one comparator, over every operator of the two tables and
\* one outside them, and chained comparisons
CompareOps == DOMAIN CompareNative \cup {"In"}

Compares ==
    {Compare(left, <<op>>, <<right>>) :
        left \in Operands, right \in Operands, op \in CompareOps}
    \cup {Compare(left, <<op, "Lt">>, <<Num(1), right>>) :
            left \in Operands, right \in Operands, op \in {"Lt", "Eq"}}

\* string literals of up to MaxStr characters: a control character, which
\* repr writes as \x0c, the backslash, the two quotes, a newline and plain
\* characters, among them the x and the u of an escape
MaxStr == 2

StrChars == {"\f", "\\", "\"", "'", "\n", "x", "u", "0"}

RECURSIVE StrsOf(_)
StrsOf(k) ==
    IF k = 0 THEN {""}
    ELSE LET shorter == StrsOf(k - 1)
         IN  shorter \cup {w \o c : w \in shorter, c \in StrChars}

StrLiterals == {Str(w) : w \in StrsOf(MaxStr)}

\* subscripts of a tagged and of an untagged base, with an index or a slice
\* that holds the root or a lambda, alone and as the argument of a tagged and
\* of an untagged call
SubscriptParts ==
    {Index(Num(0)), Index(r_), Index(Lambda(<<"y">>, Name("y"))),
     Slice(Num(0), r_, Absent), Slice(Absent, Lambda(<<"y">>, Name("y")), Num(2))}

Subscripts ==
    LET subs == {Subscript(b, sl) : b \in {r_, x_}, sl \in SubscriptParts}
    IN  subs \cup {Call(f, <<sub>>, <<>>) :
                      f \in {Attribute(r_, "expr"), Name("f")}, sub \in subs}

\* untagged calls in the argument of a tagged call, of an untagged call, and
\* in the body of a tagged lambda
NestedCalls ==
    LET g(a) == Call(Name("g"), <<a>>, <<>>)
        inner == {g(x_), g(Lambda(<<"x">>, g(x_))), Lambda(<<"x">>, g(x_)),
                  Call(Name("g"), <<>>, <<keyword("k", Lambda(<<"x">>, g(x_)))>>)}
    IN  {Call(f, <<a>>, <<>>) : f \in {Attribute(r_, "map"), Name("f")}, a \in inner}

\* lambdas whose body is itself a lambda, an index or a slice, or holds a
\* call with a lambda of its own; alone and as the argument of a tagged and
\* of an untagged call
LambdaBodies ==
    {Lambda(<<"y">>, Name("y")), Lambda(<<"y">>, x_), Index(Num(0)),
     Slice(Num(0), Absent, Absent), Subscript(x_, Index(Num(0))),
     Call(Attribute(r_, "m"), <<Lambda(<<"y">>, Name("y"))>>, <<>>),
     Call(Name("g"), <<Lambda(<<"y">>, Name("y"))>>, <<>>), Num(1)}

Lambdas ==
    LET lams == {Lambda(<<"x">>, b) : b \in LambdaBodies}
    IN  lams \cup {Call(f, <<l>>, <<>>) :
                      f \in {Attribute(r_, "map"), Name("f")}, l \in lams}

Snippets ==
    Lambdas \cup NestedCalls \cup Subscripts \cup StrLiterals \cup Expressions \cup Scenarios \cup LiteralLists \cup IdentifierUses \cup Slices
        \cup ByteLiterals \cup SkipSnippets \cup NullArgCalls \cup BinOps
        \cup KeywordCalls \cup Compares

(***************************************************************************)
(* The state: a snippet as the parser returned it, its flags once          *)
(* parse_snippet added them, what transpile returned for each language,    *)
(* and, for the runs that call convert on a Visitor object of their own,   *)
(* that object and what its calls returned; for the batch runs, the        *)
(* fixtures every_test yields, how many of them reduce has consumed, and   *)
(* the result buckets.                                                     *)
(***************************************************************************)
VARIABLES snippet, flags, pc, result, visitor, returned, tests, done, results

vars == <<snippet, flags, pc, result, visitor, returned, tests, done, results>>

NoResult == [none |-> TRUE, text |-> "", exc |-> "unset", msg |-> "", look |-> {}]
NoVisitor == [lang |-> "", out |-> "", calls |-> 0]

\* the buckets of count_bad_ruby_transpiles, empty
Buckets == {"correct", "incorrect", "syntax_error", "failed_transpile", "r.row"}
NoBuckets == [b \in Buckets |-> <<>>]

\* no batch of fixtures is being reduced
NoBatch == tests = <<>> /\ done = 0 /\ results = NoBuckets

Init ==
    /\ snippet \in Snippets
    /\ flags = NoFlags
    /\ pc = "start"
    /\ result = [l \in Langs \cup {"reql"} |-> NoResult]
    /\ visitor = NoVisitor
    /\ returned = <<>>
    /\ NoBatch

\* main: parse_snippet, then transpile to Ruby, JavaScript and Java
ParseSnippet ==
    /\ pc = "start"
    /\ flags' = parse_snippet(snippet)
    /\ pc' = "parsed"
    /\ UNCHANGED <<snippet, result, visitor, returned, tests, done, results>>

TranspileRb ==
    /\ pc = "parsed"
    /\ result' = [result EXCEPT !["rb"] = transpile(flags, snippet, "rb")]
    /\ pc' = "rb"
    /\ UNCHANGED <<snippet, flags, visitor, returned, tests, done, results>>

TranspileJs ==
    /\ pc = "rb"
    /\ result' = [result EXCEPT !["js"] = transpile(flags, snippet, "js")]
    /\ pc' = "js"
    /\ UNCHANGED <<snippet, flags, visitor, returned, tests, done, results>>

TranspileJava ==
    /\ pc = "js"
    /\ result' = [result EXCEPT !["java"] = transpile(flags, snippet, "java")]
    /\ pc' = "java"
    /\ UNCHANGED <<snippet, flags, visitor, returned, tests, done, results>>

\* a caller that converts with the ReQLVisitor class: ReQLVisitor().convert
ConvertReQL ==
    /\ pc = "java"
    /\ result' = [result EXCEPT !["reql"] = transpile(flags, snippet, "reql")]
    /\ pc' = "reql"
    /\ UNCHANGED <<snippet, flags, visitor, returned, tests, done, results>>

Next == ParseSnippet \/ TranspileRb \/ TranspileJs \/ TranspileJava \/ ConvertReQL

Spec == Init /\ [][Next]_vars

(***************************************************************************)
(* The case converters on their own: camel and dromedary applied, each     *)
(* once and in either order, to one identifier.                            *)
(***************************************************************************)
\* the characters identifiers are built from: two lower-case letters, an
\* upper-case one, a digit and the underscore
Alphabet == {"a", "b", "B", "1", "_"}

RECURSIVE Words(_)
Words(k) ==
    IF k = 0 THEN {""}
    ELSE LET shorter == Words(k - 1)
         IN  shorter \cup {w \o c : w \in shorter, c \in Alphabet}

\* the identifiers of the examples
Examples == {"foo_bar", "foo_bar_", "fooBar", "FooBar", "GET_FIELD"}

Varnames == (Words(MaxLen) \ {""}) \cup Examples

Applied(fn) == \E i \in DOMAIN returned : returned[i].fn = fn

InitCase ==
    /\ snippet \in {Name(id) : id \in Varnames}
    /\ flags = NoFlags
    /\ pc = "case"
    /\ result = [l \in Langs \cup {"reql"} |-> NoResult]
    /\ visitor = NoVisitor
    /\ returned = <<>>
    /\ NoBatch

Camel ==
    /\ pc = "case"
    /\ ~Applied("camel")
    /\ returned' = Append(returned, [fn |-> "camel", out |-> camel(snippet.id)])
    /\ UNCHANGED <<snippet, flags, pc, result, visitor, tests, done, results>>

Dromedary ==
    /\ pc = "case"
    /\ ~Applied("dromedary")
    /\ returned' = Append(returned,
                          [fn |-> "dromedary", out |-> dromedary(snippet.id)])
    /\ UNCHANGED <<snippet, flags, pc, result, visitor, tests, done, results>>

NextCase == Camel \/ Dromedary

SpecCase == InitCase /\ [][NextCase]_vars

(***************************************************************************)
(* Callers that keep a Visitor object: they construct a Visitor and call   *)
(* convert on it, up to MaxCalls times, and may then construct another.    *)
(***************************************************************************)
ConvertSnippets == Wrapped(MaxWrap - 1) \cup Scenarios

InitConvert ==
    /\ snippet \in ConvertSnippets
    /\ flags = NoFlags
    /\ pc = "start"
    /\ result = [l \in Langs \cup {"reql"} |-> NoResult]
    /\ visitor = NoVisitor
    /\ returned = <<>>
    /\ NoBatch

\* converter.Visitor(): a new object replaces the one the caller held
Construct ==
    /\ pc = "parsed"
    /\ visitor = NoVisitor \/ visitor.calls > 0
    /\ Len(returned) < MaxCalls
    /\ \E lang \in Langs : visitor' = NewVisitor(lang)
    /\ UNCHANGED <<snippet, flags, pc, result, returned, tests, done, results>>

\* visitor.convert(parsed_snippet) on the object the caller holds
Convert ==
    /\ pc = "parsed"
    /\ visitor # NoVisitor
    /\ visitor.calls < MaxCalls
    /\ LET c == convert(visitor, flags, snippet)
       IN  /\ visitor' = c.visitor
           /\ returned' = Append(returned,
                                 [lang |-> visitor.lang, call |-> visitor.calls + 1,
                                  flags |-> flags, ret |-> c.ret])
    /\ UNCHANGED <<snippet, flags, pc, result, tests, done, results>>

NextConvert == ParseSnippet \/ Construct \/ Convert

SpecConvert == InitConvert /\ [][NextConvert]_vars

(***************************************************************************)
(* The batch: reduce_tests(check_ruby, ...) over the fixtures that         *)
(* every_test yields. A fixture is the dictionary of one test: its keys,   *)
(* the snippet under 'cd' and the hand-written Ruby under 'rb'.            *)
(***************************************************************************)
MaxTests == 2

\* a snippet text that ast.parse(snippet, mode='eval') rejects
Unparsable == Node("SyntaxError", "", "", 0, <<>>, <<>>, <<>>)

\* parse_snippet(source) with exit_on_fail false: the exception of
\* ast.parse is caught and None is returned
parse_snippet_or_None(source) ==
    IF source = Unparsable THEN [none |-> TRUE, flags |-> NoFlags]
    ELSE [none |-> FALSE, flags |-> parse_snippet(source)]

\* sub in s, for two strings
RECURSIVE Contains(_, _)
Contains(s, sub) ==
    IF Len(s) < Len(sub) THEN FALSE
    ELSE IF SubSeq(s, 1, Len(sub)) = sub THEN TRUE
    ELSE Contains(Tail(s), sub)

\* the value under 'rb': one string, or a list of strings
One(text) == [list |-> FALSE, items |-> <<text>>]
Many(texts) == [list |-> TRUE, items |-> texts]

equal_or_contained_in(first, second) ==
    IF ~second.list THEN first = second.items[1]
    ELSE \E i \in DOMAIN second.items : second.items[i] = first

\* results[bucket].append(entry)
append(res, bucket, entry) == [res EXCEPT ![bucket] = Append(@, entry)]

\* check_ruby from the call of transpile on: transpiled is what it returned
check_transpiled(res, test, transpiled) ==
    LET entry == [generic |-> test.cd, transpiled |-> transpiled.text, custom |-> test.rb]
    IN  IF transpiled.none THEN append(res, "failed_transpile", test.cd)
        ELSE IF equal_or_contained_in(transpiled.text, test.rb)
             THEN append(res, "correct", entry)
        ELSE IF Contains(transpiled.text, "r.row") THEN append(res, "r.row", entry)
        ELSE append(res, "incorrect", entry)

\* check_ruby from the call of parse_snippet on
check_parsed(res, test, parsed) ==
    IF parsed.none THEN append(res, "syntax_error", test.cd)
    ELSE check_transpiled(res, test, transpile(parsed.flags, test.cd, "rb"))

\* check_ruby with the failed conversions recorded nowhere
check_ruby_dropping(res, test) ==
    IF ~({"rb", "cd"} \subseteq test.keys) THEN res
    ELSE LET parsed == parse_snippet_or_None(test.cd)
             kept == check_parsed(res, test, parsed)
         IN  IF kept["failed_transpile"] # res["failed_transpile"] THEN res ELSE kept

check_ruby(res, test) ==
    IF ~({"rb", "cd"} \subseteq test.keys) THEN res
    ELSE check_parsed(res, test, parse_snippet_or_None(test.cd))

\* the snippets of the fixtures: one that does not parse, ones the Ruby
\* converter renders, and ones it fails on
FixtureSnippets ==
    {Unparsable, r_, Attribute(r_, "row"), IfExp(r_, x_, r_), Name("frozenset"),
     Subscript(r_, Slice(Absent, Absent, Absent))}

FixtureRuby == {One("r"), One("r.row"), Many(<<"x", "r">>), One("other")}

Fixtures ==
    {[keys |-> {"cd", "rb"}, cd |-> cd, rb |-> rb] :
        cd \in FixtureSnippets, rb \in FixtureRuby}
      \cup {[keys |-> {"rb", "py"}, cd |-> Unparsable, rb |-> One("r")],
            [keys |-> {"cd"}, cd |-> r_, rb |-> One("")]}

RECURSIVE Batches(_)
Batches(k) ==
    IF k = 0 THEN {<<>>}
    ELSE LET shorter == Batches(k - 1)
         IN  shorter \cup {Append(b, t) : b \in shorter, t \in Fixtures}

InitBatch ==
    /\ tests \in Batches(MaxTests)
    /\ done = 0
    /\ results = NoBuckets
    /\ snippet = Absent
    /\ flags = NoFlags
    /\ pc = "batch"
    /\ result = [l \in Langs \cup {"reql"} |-> NoResult]
    /\ visitor = NoVisitor
    /\ returned = <<>>

\* one step of reduce(check_ruby, every_test(), initial)
CheckRuby ==
    /\ pc = "batch"
    /\ done < Len(tests)
    /\ results' = check_ruby(results, tests[done + 1])
    /\ done' = done + 1
    /\ UNCHANGED <<snippet, flags, pc, result, visitor, returned, tests>>

\* every_test is exhausted: reduce returns the buckets
Reduced ==
    /\ pc = "batch"
    /\ done = Len(tests)
    /\ pc' = "reduced"
    /\ UNCHANGED <<snippet, flags, result, visitor, returned, tests, done, results>>

NextBatch == CheckRuby \/ Reduced

SpecBatch == InitBatch /\ [][NextBatch]_vars

(***************************************************************************)
(* A caller that converts an assignment statement: the statement, as       *)
(* ast.parse(..., mode='exec') returns it, is given its flags and then     *)
(* converted by new Visitor objects, the Java one constructed with type_.  *)
(***************************************************************************)
AssignTargets ==
    {<<x_>>, <<Name("a"), Name("b")>>, <<x_, Name("a"), Name("b")>>,
     <<Attribute(x_, "y")>>}

AssignValues ==
    {Num(1), r_, Call(Attribute(r_, "expr"), <<Num(1)>>, <<>>), IfExp(x_, x_, x_),
     BinOp(r_, "Add", Num(1))}

Assignments == {Assign(t, v) : t \in AssignTargets, v \in AssignValues}

\* the type_ argument: None, or the name of a Java type
Types == {NoType, "Long", "Object"}

\* java_converter.Visitor(type_=type_).convert(node)
convert_typed(type_, fl, node) ==
    getvalue(NewVisitor("java"), java_visit(Visitor(type_, TRUE), fl, node, <<>>))

InitAssign ==
    /\ snippet \in Assignments
    /\ flags = NoFlags
    /\ pc = "start"
    /\ result = [l \in Langs \cup {"reql"} |-> NoResult]
    /\ visitor = NoVisitor
    /\ returned = <<>>
    /\ NoBatch

AddFlags ==
    /\ pc = "start"
    /\ flags' = add_is_reql_flags(snippet)
    /\ pc' = "flagged"
    /\ UNCHANGED <<snippet, result, visitor, returned, tests, done, results>>

ConvertAssign ==
    /\ pc = "flagged"
    /\ Len(returned) < MaxCalls
    /\ \/ \E lang \in {"rb", "js"} :
            returned' = Append(returned,
                               [lang |-> lang, type |-> NoType,
                                ret |-> convert(NewVisitor(lang), flags, snippet).ret])
       \/ \E type_ \in Types :
            returned' = Append(returned,
                               [lang |-> "java", type |-> type_,
                                ret |-> convert_typed(type_, flags, snippet).ret])
    /\ UNCHANGED <<snippet, flags, pc, result, visitor, tests, done, results>>

NextAssign == AddFlags \/ ConvertAssign

SpecAssign == InitAssign /\ [][NextAssign]_vars

(***************************************************************************)
(* Properties of the analyzer.                                             *)
(***************************************************************************)
\* the flags are those of the snippet
Analyzed == flags # NoFlags

KindAt(p) == NodeAt(snippet, p).kind

\* the paths of the argument values of the Call at p: the positional
\* arguments and the values of the keywords
ArgPaths(p) ==
    LET node == NodeAt(snippet, p)
    IN  {p \o <<i>> : i \in 2..(node.n + 1)}
            \cup {p \o <<i, 1>> : i \in (node.n + 2)..Len(node.kids)}

\* the call at p is tagged, or was itself analyzed with passed_to_reql set
InReqlContext(p) == flags[p].is_reql \/ flags[p].passed_to_reql

\* C1, as amended: for every Call the tag is the tag of its callee; the
\* arguments of a tagged call are analyzed with inheritedContext true, those
\* of an untagged call with the inheritedContext (and the root names) the
\* call itself was analyzed with.  A Lambda passed directly as an argument is
\* tagged exactly when the call is tagged or was analyzed with
\* inheritedContext true.
C1_CallArguments ==
    \A p \in DOMAIN flags :
        KindAt(p) = "Call" =>
            /\ p \o <<1>> \in DOMAIN flags
            /\ flags[p].is_reql = flags[p \o <<1>>].is_reql
            /\ \A a \in ArgPaths(p) :
                  /\ a \in DOMAIN flags
                  /\ flags[a].reql_vars = flags[p].reql_vars
                  /\ flags[a].passed_to_reql = InReqlContext(p)
                  /\ KindAt(a) = "Lambda" => flags[a].is_reql = InReqlContext(p)

\* C1 as stated: the arguments of a Call are analyzed with inheritedContext
\* true if and only if the call is tagged, and a Lambda passed directly as an
\* argument is tagged only when the call is tagged.
C1_AsStated ==
    \A p \in DOMAIN flags :
        KindAt(p) = "Call" =>
            /\ flags[p].is_reql = flags[p \o <<1>>].is_reql
            /\ \A a \in ArgPaths(p) :
                  /\ flags[a].passed_to_reql = flags[p].is_reql
                  /\ KindAt(a) = "Lambda" /\ flags[a].is_reql => flags[p].is_reql

\* r.map(f(lambda x: x)) analyzed: f(...) is untagged, inside an argument of
\* the tagged r.map(...), and its Lambda is tagged
C1_NestedUntaggedCall ==
    /\ Analyzed
    /\ \E p \in DOMAIN flags :
          /\ KindAt(p) = "Call"
          /\ ~flags[p].is_reql
          /\ flags[p].passed_to_reql
          /\ KindAt(Parent(p)) = "Call" /\ flags[Parent(p)].is_reql
          /\ \E a \in ArgPaths(p) : KindAt(a) = "Lambda" /\ flags[a].is_reql

\* C2: a BinOp whose operator is Pow is tagged false whatever the tags of its
\* operands; any other BinOp is tagged tag(left) or tag(right); and no
\* converter looks Pow up in its table of ReQL method names.
C2_PowNeverTagged ==
    /\ \A p \in DOMAIN flags :
          KindAt(p) = "BinOp" =>
              LET either == flags[p \o <<1>>].is_reql \/ flags[p \o <<2>>].is_reql
              IN  IF NodeAt(snippet, p).id = "Pow"
                  THEN ~flags[p].is_reql
                  ELSE flags[p].is_reql = either
    /\ \A l \in DOMAIN result : "Pow" \notin result[l].look

\* r ** r analyzed and converted: both operands tagged, the BinOp not, and
\* the Java converter wrote the native operator
C2_PowOfTaggedOperands ==
    /\ snippet = BinOp(r_, "Pow", r_)
    /\ pc = "reql"
    /\ flags[<<1>>].is_reql /\ flags[<<2>>].is_reql /\ ~flags[<<>>].is_reql
    /\ result["java"].text = "r ** r"
    /\ result["js"].text = "r ** r"

\* the tag the analysis of the node at path e alone gives, with the fields
\* of the IsReql object that visited the node at path p
OwnTag(e, p) ==
    IsReql_visit([reql_vars |-> flags[p].reql_vars,
                  passed_to_reql |-> flags[p].passed_to_reql],
                 NodeAt(snippet, e), <<>>)[<<>>].is_reql

\* C3: every List, Tuple and Dict is tagged false, and each element (each key
\* and value of a Dict) carries its own tag, computed with the root names and
\* the inheritedContext the container was analyzed with.
C3_Containers ==
    \A p \in DOMAIN flags :
        KindAt(p) \in {"List", "Tuple", "Dict"} =>
            /\ ~flags[p].is_reql
            /\ \A i \in 1..Len(NodeAt(snippet, p).kids) :
                  LET e == p \o <<i>>
                  IN  /\ e \in DOMAIN flags
                      /\ flags[e].reql_vars = flags[p].reql_vars
                      /\ flags[e].passed_to_reql = flags[p].passed_to_reql
                      /\ flags[e].is_reql = OwnTag(e, p)

\* a List that is an argument of a tagged call, so analyzed with
\* inheritedContext true, with a tagged element: r.map([r])
C3_ListOfTaggedElement ==
    /\ Analyzed
    /\ \E p \in DOMAIN flags :
          /\ KindAt(p) = "List"
          /\ flags[p].passed_to_reql
          /\ ~flags[p].is_reql
          /\ Len(NodeAt(snippet, p).kids) > 0
          /\ flags[p \o <<1>>].is_reql
          /\ flags[p \o <<1>>].passed_to_reql

\* the parameter names of a Lambda node
params(node) == {node.names[i] : i \in 1..Len(node.names)}

\* the parameters of the tagged Lambdas whose body holds the node at path q
EnclosingParams(q) ==
    UNION {params(NodeAt(snippet, p)) :
              p \in {pp \in DOMAIN flags : /\ KindAt(pp) = "Lambda"
                                           /\ flags[pp].is_reql
                                           /\ IsPrefix(pp \o <<1>>, q)}}

\* r.table('users').filter(lambda row: row['age'] > 18)
FilterScenario ==
    Call(Attribute(Call(Attribute(r_, "table"), <<Str("users")>>, <<>>), "filter"),
         <<Lambda(<<"row">>,
                  Compare(Subscript(Name("row"), Index(Str("age"))),
                          <<"Gt">>, <<Num(18)>>))>>, <<>>)

\* C4: a Lambda is tagged exactly when it is analyzed with inheritedContext
\* true; the body of a tagged Lambda is analyzed with the root names extended
\* by its parameters, the body of an untagged one with the root names as
\* they are; the root names at any node are r and the parameters of the
\* tagged Lambdas whose body holds it, so a Name is tagged exactly when it is
\* r or such a parameter, and never because of a Lambda it is outside of.  In
\* the filter scenario the call, the lambda and the comparison are tagged.
C4_LambdaScope ==
    /\ \A p \in DOMAIN flags :
          KindAt(p) = "Lambda" =>
              /\ flags[p].is_reql = flags[p].passed_to_reql
              /\ p \o <<1>> \in DOMAIN flags
              /\ flags[p \o <<1>>].reql_vars =
                    IF flags[p].is_reql
                    THEN flags[p].reql_vars \cup params(NodeAt(snippet, p))
                    ELSE flags[p].reql_vars
    /\ \A q \in DOMAIN flags :
          /\ flags[q].reql_vars = {"r"} \cup EnclosingParams(q)
          /\ KindAt(q) = "Name" =>
                flags[q].is_reql = (NodeAt(snippet, q).id \in {"r"} \cup EnclosingParams(q))
    /\ Analyzed /\ snippet = FilterScenario =>
          flags[<<>>].is_reql /\ flags[<<2>>].is_reql /\ flags[<<2, 1>>].is_reql

\* r.m(lambda x: ..., ... x ...): the x of the body is tagged, the x of the
\* argument after the lambda is not
C4_ParameterOutsideBody ==
    /\ Analyzed
    /\ \E p \in DOMAIN flags :
          /\ KindAt(p) = "Lambda"
          /\ flags[p].is_reql
          /\ \E q \in DOMAIN flags, o \in DOMAIN flags :
                /\ KindAt(q) = "Name" /\ KindAt(o) = "Name"
                /\ NodeAt(snippet, q).id \in params(NodeAt(snippet, p))
                /\ NodeAt(snippet, o).id = NodeAt(snippet, q).id
                /\ IsPrefix(p \o <<1>>, q) /\ flags[q].is_reql
                /\ IsPrefix(Parent(p) \o <<p[Len(p)] + 1>>, o) /\ ~flags[o].is_reql

(***************************************************************************)
(* Properties of the case converters.                                      *)
(***************************************************************************)
\* a whole-string snake-case identifier: a letter first, then letters of the
\* same case, digits and underscores
IsSnakeCase(w) ==
    \E letters \in {Lowers, Uppers} :
        /\ CharAt(w, 1) \in CharsOf(letters)
        /\ \A i \in 1..Len(w) :
              CharAt(w, i) \in CharsOf(letters) \cup CharsOf(Digits) \cup {"_"}

\* the characters of w from position i on, in one pass: underscores are
\* dropped; a letter is lower-cased when it follows a letter, or, with
\* leadLower, when no underscore came before it, and upper-cased otherwise
RECURSIVE JoinedFrom(_, _, _)
JoinedFrom(w, i, leadLower) ==
    IF i > Len(w) THEN ""
    ELSE LET c == CharAt(w, i)
             afterLetter == i > 1 /\ IsCased(CharAt(w, i - 1))
             inFirstChunk == \A j \in 1..i : CharAt(w, j) # "_"
         IN  (IF c = "_" THEN ""
              ELSE IF afterLetter \/ (leadLower /\ inFirstChunk) THEN lower(c)
              ELSE upper(c))
                \o JoinedFrom(w, i + 1, leadLower)

\* what C5 says TitleJoin (leadLower false) and LeadLower (true) give
Stated(w, leadLower) ==
    IF IsSnakeCase(w)
    THEN JoinedFrom(w, 1, leadLower)
            \o (IF CharAt(w, Len(w)) = "_" THEN "_" ELSE "")
    ELSE (IF leadLower THEN lower(CharAt(w, 1)) ELSE upper(CharAt(w, 1)))
            \o SubSeq(w, 2, Len(w))

\* C5: camel("foo_bar") = "FooBar", camel("foo_bar_") = "FooBar_",
\* dromedary("foo_bar") = "fooBar", camel("fooBar") = "FooBar" and
\* dromedary("FooBar") = "fooBar"; for a snake-case identifier the chunks
\* between underscores are title-cased (the first one lower-cased by
\* dromedary) and joined, with one trailing underscore exactly when the
\* identifier ended with one; for any other identifier only the case of the
\* first character changes.
C5_CaseConverters ==
    pc = "case" =>
        \A i \in DOMAIN returned :
            LET w == snippet.id
                out == returned[i].out
                isCamel == returned[i].fn = "camel"
            IN  /\ out = Stated(w, ~isCamel)
                /\ w = "foo_bar" => out = IF isCamel THEN "FooBar" ELSE "fooBar"
                /\ w = "foo_bar_" /\ isCamel => out = "FooBar_"
                /\ w = "fooBar" /\ isCamel => out = "FooBar"
                /\ w = "FooBar" /\ ~isCamel => out = "fooBar"
                /\ IsSnakeCase(w) =>
                      (CharAt(out, Len(out)) = "_") = (CharAt(w, Len(w)) = "_")

\* foo_bar_ converted by both: the chunks joined and the underscore kept
C5_TrailingUnderscoreKept ==
    /\ pc = "case"
    /\ snippet.id = "foo_bar_"
    /\ returned = <<[fn |-> "camel", out |-> "FooBar_"],
                    [fn |-> "dromedary", out |-> "fooBar_"]>>

(***************************************************************************)
(* Properties of convert.                                                  *)
(***************************************************************************)
RECURSIVE Repeated(_, _)
Repeated(text, k) == IF k = 0 THEN "" ELSE text \o Repeated(text, k - 1)

\* the first call on the Visitor object that made the call returned[j]
FirstCall(j) == returned[j - returned[j].call + 1]

\* C6, as amended: the first convert of a tree on any two newly constructed
\* Visitors of one converter returns the same text (or raises the same
\* exception); the k-th convert on one Visitor object returns the text of
\* its first convert k times over, since the buffer of the object is never
\* emptied; no convert changes the flags of the tree.
C6_ConvertCalls ==
    pc = "parsed" =>
        \A j \in DOMAIN returned :
            /\ returned[j].flags = flags
            /\ \A i \in 1..(j - 1) :
                  /\ returned[i].lang = returned[j].lang
                  /\ returned[i].call = 1 /\ returned[j].call = 1
                  => returned[i].ret = returned[j].ret
            /\ FirstCall(j).call = 1 /\ FirstCall(j).lang = returned[j].lang
            /\ IF FirstCall(j).ret.raised
               THEN returned[j].ret = FirstCall(j).ret
               ELSE returned[j].ret =
                       Returned(Repeated(FirstCall(j).ret.text, returned[j].call))

\* C6 as stated: any two conversions of the tree by one converter return
\* the same text, on one Visitor object as well as on two, and the flags of
\* the tree are unchanged.
C6_AsStated ==
    pc = "parsed" =>
        \A i \in DOMAIN returned, j \in DOMAIN returned :
            /\ returned[i].flags = flags
            /\ returned[i].lang = returned[j].lang => returned[i].ret = returned[j].ret

\* three conversions to Java that returned text: the first on one Visitor,
\* the second and third on another
C6_TwoVisitorsThreeCalls ==
    /\ pc = "parsed"
    /\ Len(returned) = 3
    /\ \A i \in 1..3 : returned[i].lang = "java" /\ ~returned[i].ret.raised
    /\ returned[1].call = 1 /\ returned[2].call = 1 /\ returned[3].call = 2
    /\ returned[1].ret.text # ""
    /\ returned[2].ret.text = returned[1].ret.text
    /\ returned[3].ret.text = returned[1].ret.text \o returned[1].ret.text
    /\ visitor.out = returned[3].ret.text

(***************************************************************************)
(* Properties of the converters.                                           *)
(***************************************************************************)
StartsWith(text, prefix) ==
    Len(text) >= Len(prefix) /\ SubSeq(text, 1, Len(prefix)) = prefix

EndsWith(text, suffix) ==
    Len(text) >= Len(suffix)
        /\ SubSeq(text, Len(text) - Len(suffix) + 1, Len(text)) = suffix

\* transpile(parsed_snippet, 'java') has returned
JavaDone == pc \in {"java", "reql"}

\* C7: Visitor().convert of the Java converter renders a tagged Subscript
\* whose index is a string literal as <base>.g("<key>"), and one whose index
\* is an integer literal as <base>.nth(<n>).
C7_SmartBracket ==
    /\ JavaDone
    /\ snippet.kind = "Subscript"
    /\ snippet.kids[2].kind = "Index"
    /\ flags[<<>>].is_reql
    => LET index == snippet.kids[2].kids[1]
           java == result["java"]
       IN  /\ index.kind = "Str" =>
                 ~java.none /\ EndsWith(java.text, ".g(\"" \o index.s \o "\")")
           /\ index.kind = "Num" =>
                 /\ ~java.none
                 /\ \/ EndsWith(java.text, ".nth(" \o str(index.n) \o ")")
                    \/ EndsWith(java.text, ".nth(" \o str(index.n) \o "L)")

\* the elements of a List node are literals
IsLiteralList(node) ==
    /\ node.kind = "List"
    /\ \A i \in 1..Len(node.kids) : node.kids[i].kind \in {"Num", "Str", "NameConstant"}

\* C8, as amended: a List of literals is rendered by the Ruby and the
\* JavaScript converter as a bracketed array literal, and by the Java
\* converter as a call of r.array: [1, 2, 3] gives [1, 2, 3] in Ruby and
\* JavaScript and r.array(1L, 2L, 3L) in Java.
C8_LiteralLists ==
    pc = "reql" /\ IsLiteralList(snippet) =>
        /\ \A l \in {"rb", "js"} :
              /\ ~result[l].none
              /\ StartsWith(result[l].text, "[") /\ EndsWith(result[l].text, "]")
        /\ ~result["java"].none
        /\ StartsWith(result["java"].text, "r.array(")
        /\ EndsWith(result["java"].text, ")")
        /\ snippet = List(<<Num(1), Num(2), Num(3)>>) =>
              /\ result["rb"].text = "[1, 2, 3]"
              /\ result["js"].text = "[1, 2, 3]"
              /\ result["java"].text = "r.array(1L, 2L, 3L)"

\* C8 as stated: every converter renders a List of literals as an array
\* literal of its language, not as a call on the ReQL root r.
C8_AsStated ==
    pc = "reql" /\ IsLiteralList(snippet) =>
        \A l \in Langs : ~result[l].none /\ ~StartsWith(result[l].text, "r.")

\* [1, 2, 3] converted by the three converters
C8_OneTwoThree ==
    /\ pc = "reql"
    /\ snippet = List(<<Num(1), Num(2), Num(3)>>)
    /\ \A p \in DOMAIN flags : ~flags[p].is_reql
    /\ result["rb"].text = "[1, 2, 3]"
    /\ result["java"].text = "r.array(1L, 2L, 3L)"

\* a slice bound C9 speaks of: omitted, a number, or a negated number
IsStatedBound(b) ==
    \/ b = Absent
    \/ b.kind = "Num"
    \/ b.kind = "UnaryOp" /\ b.id = "USub" /\ b.kids[1].kind = "Num"

\* the number C9 gives such a bound
StatedBound(b, default) ==
    IF b = Absent THEN default
    ELSE IF b.kind = "Num" THEN b.n
    ELSE 0 - b.kids[1].n

\* C9: ReQLVisitor renders base[lower:upper] as base.slice(l, u), with l the
\* lower bound or 0 when it is omitted, u the upper bound or -1 when it is
\* omitted, a bound written -n rendered as the negative number, and
\* .optArg("right_bound", "closed") appended exactly when the upper bound is
\* omitted; data[-2:] gives data.slice(-2, -1).optArg("right_bound", "closed").
C9_SliceBounds ==
    /\ pc = "reql"
    /\ snippet.kind = "Subscript"
    /\ snippet.kids[1].kind = "Name"
    /\ snippet.kids[1].id \in {"data", "x", "r"}
    /\ snippet.kids[2].kind = "Slice"
    /\ IsStatedBound(snippet.kids[2].kids[1])
    /\ IsStatedBound(snippet.kids[2].kids[2])
    => LET slc == snippet.kids[2]
           reql == result["reql"]
           closed == ".optArg(\"right_bound\", \"closed\")"
           call == snippet.kids[1].id \o ".slice("
                      \o str(StatedBound(slc.kids[1], 0)) \o ", "
                      \o str(StatedBound(slc.kids[2], -1)) \o ")"
       IN  /\ ~reql.none
           /\ reql.text = IF slc.kids[2] = Absent THEN call \o closed ELSE call
           /\ EndsWith(reql.text, closed) = (slc.kids[2] = Absent)

\* data[-2:] converted by ReQLVisitor
C9_LastTwo ==
    /\ pc = "reql"
    /\ snippet = Subscript(Name("data"), Slice(UnaryOp("USub", Num(2)), Absent, Absent))
    /\ result["reql"].text = "data.slice(-2, -1).optArg(\"right_bound\", \"closed\")"

\* C10: the Java converter renders an identifier that is a Java keyword or a
\* method of Object, as a Name or as the attribute of an Attribute, with one
\* underscore appended, and any other identifier with none appended; the
\* Ruby and JavaScript converters append none.
C10_KeywordMarker ==
    /\ JavaDone
    /\ snippet.id \in Identifiers
    /\ snippet.kind = "Name" \/ (snippet.kind = "Attribute" /\ snippet.kids[1] = x_)
    => LET reserved == JAVA_KEYWORDS \cup OBJECT_METHODS
           prefix == IF snippet.kind = "Name" THEN "" ELSE "x."
           java == result["java"]
       IN  /\ ~java.none
           /\ snippet.id \in reserved => java.text = prefix \o snippet.id \o "_"
           /\ snippet.id \notin reserved /\ ~EndsWith(snippet.id, "_") =>
                 ~EndsWith(java.text, "_")
           /\ \A l \in {"rb", "js"} :
                 /\ ~result[l].none
                 /\ ~EndsWith(snippet.id, "_") => ~EndsWith(result[l].text, "_")

(***************************************************************************)
(* Properties of the batch.                                                *)
(***************************************************************************)
\* the fixtures consumed so far that have both the generic and the Ruby entry
Consumed == {i \in 1..done : {"rb", "cd"} \subseteq tests[i].keys}

Parses(t) == t.cd # Unparsable

\* the Ruby conversion of a fixture that parses raised
ConversionFails(t) == visit("rb", parse_snippet(t.cd), t.cd).exc # ""

Recorded(bucket) == Len(results[bucket])

\* C11: in a batch, a fixture that does not parse goes to syntax_error and
\* one whose conversion raises goes to failed_transpile, with transpile
\* returning None and no text; every consumed fixture that has both entries
\* is in exactly one bucket; and while fixtures remain the next one can
\* be consumed, reduce returning only when all are.
C11_BatchNeverStops ==
    pc \in {"batch", "reduced"} =>
        /\ Recorded("correct") + Recorded("incorrect") + Recorded("syntax_error")
             + Recorded("failed_transpile") + Recorded("r.row")
           = Cardinality(Consumed)
        /\ Recorded("syntax_error")
           = Cardinality({i \in Consumed : ~Parses(tests[i])})
        /\ Recorded("failed_transpile")
           = Cardinality({i \in Consumed :
                            Parses(tests[i]) /\ ConversionFails(tests[i])})
        /\ \A i \in Consumed :
              Parses(tests[i]) /\ ConversionFails(tests[i]) =>
                  LET t == transpile(parse_snippet(tests[i].cd), tests[i].cd, "rb")
                  IN  t.none /\ t.text = ""
        /\ (pc = "batch" /\ done < Len(tests)) => ENABLED CheckRuby
        /\ pc = "reduced" => done = Len(tests)

\* a batch of a fixture whose conversion fails and then one that is rendered
\* as the hand-written Ruby, both consumed
C11_FailureThenCorrect ==
    /\ pc = "reduced"
    /\ Len(tests) = 2
    /\ 1 \in Consumed /\ Parses(tests[1]) /\ ConversionFails(tests[1])
    /\ 2 \in Consumed
    /\ Recorded("failed_transpile") = 1
    /\ Recorded("correct") = 1

(***************************************************************************)
(* Properties of the failures of a conversion.                             *)
(***************************************************************************)
\* the messages the skip rules give to skip
SkipMessages ==
    {"can't convert frozensets", "can't convert frozensets to GroupedData yet",
     "arity checks done by java type system", "Java driver doesn't support r.row",
     "non-function arguments to forEach", "map contains a function argument"}

\* the exception class a Visitor raises for a node kind it has no method for
GenericFailure(lang) == visit(lang, NoFlags, IfExp(x_, x_, x_)).exc

\* C12: a conversion that matched a skip rule ends with an exception of a
\* class other than the one raised for an unhandled node kind, so that the
\* caller can tell the two outcomes apart.
C12_SkipDistinguished ==
    \A lang \in Langs \cup {"reql"} :
        (result[lang] # NoResult /\ result[lang].msg \in SkipMessages) =>
            result[lang].exc # GenericFailure(lang)

(***************************************************************************)
(* Properties of the Java emitter.                                         *)
(***************************************************************************)
\* the text of the value of the assignment, converted on its own by a
\* Visitor of the same type_
ValueText(type_) ==
    java_visit(Visitor(type_, TRUE), flags, snippet.kids[Len(snippet.kids)],
               <<Len(snippet.kids)>>)

\* C13: the Java conversion of an Assign with more than one target fails
\* and returns no text; with one target, a name, and a type_ it returns
\* "<Type> name = (<Type>) (<value>);".
C13_AssignTargets ==
    \A i \in DOMAIN returned :
        (snippet.kind = "Assign" /\ returned[i].lang = "java") =>
            /\ snippet.n > 1 => returned[i].ret.raised /\ returned[i].ret.text = ""
            /\ (/\ snippet.n = 1
                /\ snippet.kids[1].kind = "Name"
                /\ returned[i].type # NoType
                /\ ValueText(returned[i].type).exc = "") =>
                  /\ ~returned[i].ret.raised
                  /\ returned[i].ret.text
                       = returned[i].type \o " " \o snippet.kids[1].id \o " = ("
                           \o returned[i].type \o ") ("
                           \o ValueText(returned[i].type).txt \o ");"

\* the argument is the None constant or the identifier null
IsNull(arg) ==
    \/ arg.kind = "NameConstant" /\ arg.id = "None"
    \/ arg.kind = "Name" /\ arg.id \in {"None", "null"}

\* the Java text of the node at a path of the snippet, converted on its own
JavaText(path) ==
    java_visit(Visitor(NoType, TRUE), flags, NodeAt(snippet, path), path).txt

\* the positional arguments from the i-th on, each null one after the cast
RECURSIVE CastArgs(_)
CastArgs(i) ==
    IF i > snippet.n + 1 THEN ""
    ELSE (IF IsNull(snippet.kids[i]) THEN "(ReqlExpr) " ELSE "")
           \o JavaText(<<i>>)
           \o (IF i = snippet.n + 1 THEN "" ELSE ", ")
           \o CastArgs(i + 1)

\* C14: the Java converter writes "(ReqlExpr) " before every positional
\* argument of a call that is the None constant or the identifier null, and
\* before no other argument.
C14_NullCast ==
    JavaDone /\ snippet \in NullArgCalls =>
        /\ ~result["java"].none
        /\ result["java"].text = JavaText(<<1>>) \o "(" \o CastArgs(2) \o ")"

(***************************************************************************)
(* Properties of the emitters, by the parts of the snippet.                 *)
(***************************************************************************)
\* the conversion of the node at a path of the snippet, on its own
Part(lang, path) ==
    CASE lang = "rb" -> rb_visit(flags, NodeAt(snippet, path), path)
      [] lang = "js" -> js_visit(flags, NodeAt(snippet, path), path)
      [] lang = "java" ->
            java_visit(Visitor(NoType, TRUE), flags, NodeAt(snippet, path), path)

\* the operator tables, as stated
StatedMethod == [Add |-> "add", Sub |-> "sub", Mult |-> "mul", Div |-> "div", Mod |-> "mod"]
StatedInfix ==
    [Add |-> " + ", Sub |-> " - ", Mult |-> " * ", Div |-> " / ", Mod |-> " % ",
     Pow |-> " ** "]

\* C15: Java and JavaScript render a tagged BinOp as <left>.<method>(<right>),
\* the left operand inside r.expr(...) exactly when it is untagged, and an
\* untagged BinOp as <left><infix operator><right> with nothing wrapped.
C15_BinOpLift ==
    pc = "reql" /\ snippet.kind = "BinOp" =>
        \A lang \in {"js", "java"} :
            LET left == Part(lang, <<1>>)
                right == Part(lang, <<2>>)
                tagged == flags[<<>>].is_reql
                lifted == IF flags[<<1>>].is_reql THEN left.txt
                          ELSE "r.expr(" \o left.txt \o ")"
            IN  (left.exc = "" /\ right.exc = "") =>
                  /\ (tagged /\ snippet.id \in DOMAIN StatedMethod) =>
                        /\ ~result[lang].none
                        /\ result[lang].text
                             = lifted \o "." \o StatedMethod[snippet.id]
                                 \o "(" \o right.txt \o ")"
                  /\ (~tagged /\ snippet.id \in DOMAIN StatedInfix) =>
                        /\ ~result[lang].none
                        /\ result[lang].text
                             = left.txt \o StatedInfix[snippet.id] \o right.txt

\* 1 - r, tagged with an untagged left operand, and converted
C15_LiftedLeft ==
    /\ pc = "reql"
    /\ snippet = BinOp(Num(1), "Sub", r_)
    /\ flags[<<>>].is_reql /\ ~flags[<<1>>].is_reql
    /\ result["java"].text = "r.expr(1L).sub(r)"
    /\ result["js"].text = "r.expr(1).sub(r)"

\* the texts of the children at idxs, joined with ", "
RECURSIVE Joined(_, _)
Joined(lang, idxs) ==
    IF idxs = <<>> THEN ""
    ELSE Part(lang, <<Head(idxs)>>).txt
           \o (IF Tail(idxs) = <<>> THEN "" ELSE ", ")
           \o Joined(lang, Tail(idxs))

\* the named arguments at idxs, as the chained calls of Java
RECURSIVE Chained(_)
Chained(idxs) ==
    IF idxs = <<>> THEN ""
    ELSE ".optArg(\"" \o snippet.kids[Head(idxs)].id \o "\", "
           \o Part("java", <<Head(idxs), 1>>).txt \o ")"
           \o Chained(Tail(idxs))

\* where sub first starts in text, 0 when nowhere
IndexOf(text, sub) ==
    IF \E i \in 1..Len(text) : StartsAt(text, i, sub)
    THEN CHOOSE i \in 1..Len(text) :
            StartsAt(text, i, sub) /\ \A j \in 1..(i - 1) : ~StartsAt(text, j, sub)
    ELSE 0

Positional == Range(2, snippet.n + 1)
Named == Range(snippet.n + 2, Len(snippet.kids))

\* every named argument is written as "<name>: <value>" by Ruby and
\* JavaScript, the name of JavaScript being the name or its dromedary form
InlinePairs(lang) ==
    \A k \in DOMAIN Named :
        LET kw == snippet.kids[Named[k]]
            value == Part(lang, <<Named[k], 1>>).txt
        IN  Part(lang, <<Named[k]>>).txt
              \in {kw.id \o ": " \o value, dromedary(kw.id) \o ": " \o value}

\* C16, as amended: JavaScript writes the positional arguments and then one
\* object of the named ones, Java the positional arguments in parentheses
\* and then one .optArg(name, value) per named one, Ruby the positional and
\* then the named ones as name: value pairs in one list; but a last
\* positional argument that is a lambda is written by Ruby as a block after
\* that list, and so after the named arguments.
C16_NamedArguments ==
    pc = "reql" /\ snippet \in KeywordCalls =>
        LET callee(lang) == Part(lang, <<1>>).txt
            block == snippet.n > 0 /\ snippet.kids[snippet.n + 1].kind = "Lambda"
            listed == IF block THEN Range(2, snippet.n) \o Named ELSE Positional \o Named
        IN  /\ \A lang \in Langs : ~result[lang].none
            /\ InlinePairs("rb") /\ InlinePairs("js")
            /\ result["js"].text
                 = callee("js") \o "(" \o Joined("js", Positional)
                     \o (IF Positional # <<>> /\ Named # <<>> THEN ", " ELSE "")
                     \o (IF Named # <<>> THEN "{" \o Joined("js", Named) \o "}" ELSE "")
                     \o ")"
            /\ result["java"].text
                 = callee("java") \o "(" \o Joined("java", Positional) \o ")"
                     \o Chained(Named)
            /\ result["rb"].text
                 = callee("rb")
                     \o (IF listed = <<>> THEN "" ELSE "(" \o Joined("rb", listed) \o ")")
                     \o (IF block THEN Part("rb", <<snippet.n + 1>>).txt ELSE "")

\* C16 as stated: in the text of every converter each positional argument
\* starts before every named argument.
C16_AsStated ==
    pc = "reql" /\ snippet \in KeywordCalls =>
        \A lang \in Langs :
            \A i \in DOMAIN Positional : \A k \in DOMAIN Named :
                LET text == result[lang].text
                    arg == Part(lang, <<Positional[i]>>).txt
                    named == IF lang = "java" THEN Chained(<<Named[k]>>)
                             ELSE Part(lang, <<Named[k]>>).txt
                IN  /\ IndexOf(text, arg) > 0
                    /\ IndexOf(text, named) > 0
                    /\ IndexOf(text, arg) < IndexOf(text, named)

\* r.m(1, lambda x: x, k=2), which Ruby renders with the block last
C16_BlockAfterNamed ==
    /\ pc = "reql"
    /\ snippet = Call(Attribute(r_, "m"), <<Num(1), Lambda(<<"x">>, x_)>>,
                      <<keyword("k", Num(2))>>)
    /\ result["rb"].text = "r.m(1, k: 2){|x| x}"
    /\ result["js"].text = "r.m(1, function(x) { return x }, {k: 2})"
    /\ result["java"].text = "r.m(1L, x -> x).optArg(\"k\", 2L)"

(***************************************************************************)
(* Properties of the comparisons                                           *)
(***************************************************************************)
\* the method and the operator of each comparison, as stated
StatedCompareMethod ==
    [Lt |-> "lt", Gt |-> "gt", GtE |-> "ge", LtE |-> "le", Eq |-> "eq", NotEq |-> "ne"]
StatedCompareInfix ==
    [Lt |-> " < ", Gt |-> " > ", GtE |-> " >= ", LtE |-> " <= ", Eq |-> " == ",
     NotEq |-> " != "]

ChainedCompare(node) == node.kind = "Compare" /\ Len(node.kids) > 2
SingleCompare(node) ==
    /\ node.kind = "Compare"
    /\ Len(node.kids) = 2
    /\ node.names[1] \in DOMAIN StatedCompareMethod

EitherSideTagged == flags[<<1>>].is_reql \/ flags[<<2>>].is_reql

\* C17: in Java and JavaScript a comparison with more than one comparator
\* fails with a RuntimeError and no text of the comparison written; one with
\* a single comparator is "(" left ")." lt/gt/ge/le/eq/ne "(" right ")" when
\* either side is tagged and left, the native operator, right otherwise; and
\* "either side is tagged" is the analyzer's tag of the comparison.
C17_Compare ==
    (pc = "reql" /\ snippet.kind = "Compare") =>
        \A lang \in {"js", "java"} :
            /\ ChainedCompare(snippet) =>
                /\ result[lang].none
                /\ Part(lang, <<>>).exc = "RuntimeError"
                /\ Part(lang, <<>>).msg = "Chained comparison not supported"
                /\ Part(lang, <<>>).txt = ""
            /\ (/\ SingleCompare(snippet)
                /\ Part(lang, <<1>>).exc = ""
                /\ Part(lang, <<2>>).exc = "") =>
                /\ EitherSideTagged = flags[<<>>].is_reql
                /\ ~result[lang].none
                /\ result[lang].text =
                       IF EitherSideTagged
                       THEN "(" \o Part(lang, <<1>>).txt \o ")."
                                \o StatedCompareMethod[snippet.names[1]] \o "("
                                \o Part(lang, <<2>>).txt \o ")"
                       ELSE Part(lang, <<1>>).txt
                                \o StatedCompareInfix[snippet.names[1]]
                                \o Part(lang, <<2>>).txt

C17_ChainedRefused ==
    /\ pc = "reql"
    /\ snippet = Compare(r_, <<"Lt", "Lt">>, <<Num(1), x_>>)
    /\ result["js"].none /\ result["js"].exc = "RuntimeError"
    /\ result["java"].none /\ result["java"].exc = "RuntimeError"
    /\ ~result["rb"].none


(***************************************************************************)
(* Properties of the Java string literals                                  *)
(***************************************************************************)
\* the body of a Java string literal, read escape by escape: no escape of
\* the form \x
RECURSIVE NoShortEscape(_)
NoShortEscape(body) ==
    IF body = "" THEN TRUE
    ELSE IF Head(body) # "\\" THEN NoShortEscape(Tail(body))
    ELSE /\ Len(body) >= 2
         /\ CharAt(body, 2) # "x"
         /\ NoShortEscape(SubSeq(body, 3, Len(body)))

\* the characters a Java string literal stands for
RECURSIVE JavaUnescape(_)
JavaUnescape(body) ==
    IF body = "" THEN ""
    ELSE IF Head(body) # "\\" THEN Head(body) \o JavaUnescape(Tail(body))
    ELSE IF Len(body) >= 6 /\ SubSeq(body, 1, 6) = "\\u000c"
    THEN "\f" \o JavaUnescape(SubSeq(body, 7, Len(body)))
    ELSE IF Len(body) < 2 THEN "<bad escape>"
    ELSE (CASE CharAt(body, 2) = "n" -> "\n"
            [] CharAt(body, 2) = "\\" -> "\\"
            [] CharAt(body, 2) = "\"" -> "\""
            [] OTHER -> "<bad escape>")
         \o JavaUnescape(SubSeq(body, 3, Len(body)))

\* C18: the Java emitter writes a string literal between double quotes with
\* every character that repr writes as \xHH in the form \u00HH: read escape
\* by escape the text holds no \x escape and no such character raw, and it
\* stands for the characters of the literal.
C18_StringEscape ==
    (pc = "reql" /\ snippet.kind = "Str") =>
        LET text == result["java"].text
            body == SubSeq(text, 2, Len(text) - 1)
        IN  /\ ~result["java"].none
            /\ Len(text) >= 2
            /\ CharAt(text, 1) = "\"" /\ CharAt(text, Len(text)) = "\""
            /\ NoShortEscape(body)
            /\ "\f" \notin CharsOf(body)
            /\ JavaUnescape(body) = snippet.s

C18_ControlByteWidened ==
    /\ pc = "reql"
    /\ snippet = Str("\f")
    /\ result["java"].text = "\"\\u000c\""


(***************************************************************************)
(* Properties of the Java byte arrays                                      *)
(***************************************************************************)
\* the signed 8-bit number of a byte value, as stated
Signed(b) == IF b <= 127 THEN b ELSE b - 256

RECURSIVE SignedList(_)
SignedList(bs) ==
    IF bs = <<>> THEN ""
    ELSE ToString(Signed(Head(bs))) \o (IF Len(bs) > 1 THEN ", " ELSE "")
            \o SignedList(Tail(bs))

\* C19: the Java emitter writes a bytes literal as new byte[]{...} with, in
\* the order of the bytes, b for a byte b <= 127 and b - 256 for a byte
\* b > 127, each of them in -128..127 and congruent to b modulo 256; and it
\* writes every byte value from 0 to 255 so.
C19_SignedBytes ==
    (pc = "reql" /\ snippet.kind = "Bytes") =>
        /\ ~result["java"].none
        /\ result["java"].text = "new byte[]{" \o SignedList(snippet.bytes) \o "}"
        /\ \A i \in 1..Len(snippet.bytes) :
            /\ Signed(snippet.bytes[i]) \in -128..127
            /\ (Signed(snippet.bytes[i]) - snippet.bytes[i]) % 256 = 0
        /\ \A b \in 0..255 : JavaByte(b) = ToString(Signed(b))

C19_FoldedBytes ==
    /\ pc = "reql"
    /\ snippet = Bytes(<<0, 127, 128, 255>>)
    /\ result["java"].text = "new byte[]{0, 127, -128, -1}"


(***************************************************************************)
(* Properties of the analyzer on subscripts                                *)
(***************************************************************************)
\* the bounds of a slice, or the value of an index, below the node at p
PartsBelow(p) ==
    {p \o <<i>> : i \in {j \in 1..Len(NodeAt(snippet, p).kids) :
                            NodeAt(snippet, p).kids[j] # Absent}}

\* C20, as amended: for every Subscript the tag is the tag of its base; its
\* index or slice is analyzed with inheritedContext true when the base is
\* tagged and with the inheritedContext the Subscript itself was analyzed
\* with when the base is untagged, and that is its tag.  The bounds of a
\* slice and the value of an index are analyzed with inheritedContext false.
C20_Subscript ==
    \A p \in DOMAIN flags :
        KindAt(p) = "Subscript" =>
            /\ p \o <<1>> \in DOMAIN flags /\ p \o <<2>> \in DOMAIN flags
            /\ flags[p].is_reql = flags[p \o <<1>>].is_reql
            /\ flags[p \o <<2>>].passed_to_reql = InReqlContext(p)
            /\ flags[p \o <<2>>].is_reql = InReqlContext(p)
            /\ flags[p \o <<2>>].reql_vars = flags[p].reql_vars
            /\ \A q \in PartsBelow(p \o <<2>>) :
                  /\ q \in DOMAIN flags
                  /\ ~flags[q].passed_to_reql
                  /\ KindAt(q) = "Lambda" => ~flags[q].is_reql

\* C20 as stated: the index or slice of an untagged base is analyzed with
\* inheritedContext false, and its tag is always the tag of the base.
C20_AsStated ==
    \A p \in DOMAIN flags :
        KindAt(p) = "Subscript" =>
            /\ flags[p].is_reql = flags[p \o <<1>>].is_reql
            /\ flags[p \o <<2>>].passed_to_reql = flags[p \o <<1>>].is_reql
            /\ flags[p \o <<2>>].is_reql = flags[p \o <<1>>].is_reql
            /\ \A q \in PartsBelow(p \o <<2>>) : ~flags[q].passed_to_reql

\* r.expr(x[0]) analyzed: x is untagged, the index of x[0] is tagged
C20_UntaggedBaseInArgument ==
    /\ snippet = Call(Attribute(r_, "expr"), <<Subscript(x_, Index(Num(0)))>>, <<>>)
    /\ <<2, 2>> \in DOMAIN flags
    /\ ~flags[<<2, 1>>].is_reql
    /\ ~flags[<<2>>].is_reql
    /\ flags[<<2, 2>>].is_reql
    /\ ~flags[<<2, 2, 1>>].passed_to_reql


(***************************************************************************)
(* Properties of the analyzer on untagged calls                            *)
(***************************************************************************)
\* C21: the arguments of an untagged Call are analyzed with the root names
\* and the inheritedContext the Call itself was analyzed with, whichever
\* they are; the tag of each argument is the one that context gives it.
C21_UntaggedCall ==
    \A p \in DOMAIN flags :
        (KindAt(p) = "Call" /\ ~flags[p].is_reql) =>
            \A a \in ArgPaths(p) :
                /\ a \in DOMAIN flags
                /\ flags[a].reql_vars = flags[p].reql_vars
                /\ flags[a].passed_to_reql = flags[p].passed_to_reql
                /\ flags[a].is_reql = OwnTag(a, p)

\* r.map(g(lambda x: g(x))) analyzed: the argument of the outer g, an untagged call in
\* an argument of r.map, has inheritedContext true; the argument of the
\* inner g, an untagged call in the body of the lambda, has the root names
\* r and x and inheritedContext false
C21_BothContextsKept ==
    /\ snippet = Call(Attribute(r_, "map"),
                      <<Call(Name("g"),
                             <<Lambda(<<"x">>, Call(Name("g"), <<x_>>, <<>>))>>,
                             <<>>)>>, <<>>)
    /\ Analyzed
    /\ ~flags[<<2>>].is_reql /\ flags[<<2>>].passed_to_reql
    /\ flags[<<2, 2>>].passed_to_reql
    /\ ~flags[<<2, 2, 1>>].is_reql /\ ~flags[<<2, 2, 1>>].passed_to_reql
    /\ flags[<<2, 2, 1, 2>>].reql_vars = {"r", "x"}
    /\ ~flags[<<2, 2, 1, 2>>].passed_to_reql
    /\ flags[<<2, 2, 1, 2>>].is_reql


(***************************************************************************)
(* Properties of the analyzer on the kinds it has no rule for              *)
(***************************************************************************)
\* the kinds IsReql has a visit_ method for
RuledKinds ==
    {"Name", "Attribute", "Lambda", "Call", "Subscript", "Index", "Slice", "BinOp",
     "Compare", "UnaryOp", "List", "Tuple", "Dict"}

\* C22: after the analyzer has run, every node of the tree carries a boolean
\* tag, the nodes of a kind without a rule the tag false, and no conversion
\* afterwards fails for want of the tag of a node it visits.
C22_EveryNodeTagged ==
    pc = "flagged" =>
        /\ \A p \in Paths(snippet) :
              /\ HasFlag(flags, p)
              /\ flags[p].is_reql \in BOOLEAN
              /\ KindAt(p) \notin RuledKinds => ~flags[p].is_reql
        /\ \A i \in DOMAIN returned : returned[i].ret.exc # "AttributeError"


(***************************************************************************)
(* Properties of the analyzer on the body of a lambda                      *)
(***************************************************************************)
\* the tagged names at or below the node at path b: root names and
\* parameters of enclosing tagged lambdas
TaggedNamesBelow(b) ==
    {n \in DOMAIN flags : /\ IsPrefix(b, n)
                          /\ KindAt(n) = "Name"
                          /\ flags[n].is_reql
                          /\ NodeAt(snippet, n).id \in {"r"} \cup EnclosingParams(n)}

\* C23: the body of a Lambda, tagged or not, is analyzed with
\* inheritedContext false and with the root names of the Lambda, extended by
\* its parameters when it is tagged; a body that is itself a Lambda, a Slice
\* or an Index is tagged false; a tagged name in the body is a root name or
\* a parameter of an enclosing tagged Lambda, and no node of a body without
\* such a name is tagged.
C23_LambdaBody ==
    \A p \in DOMAIN flags :
        KindAt(p) = "Lambda" =>
            LET b == p \o <<1>>
            IN  /\ b \in DOMAIN flags
                /\ ~flags[b].passed_to_reql
                /\ flags[b].reql_vars =
                     flags[p].reql_vars
                        \cup (IF flags[p].is_reql THEN params(NodeAt(snippet, p)) ELSE {})
                /\ KindAt(b) \in {"Lambda", "Slice", "Index"} => ~flags[b].is_reql
                /\ \A q \in DOMAIN flags :
                      (IsPrefix(b, q) /\ flags[q].is_reql) =>
                          /\ TaggedNamesBelow(b) # {}
                          /\ KindAt(q) = "Name" => q \in TaggedNamesBelow(b)

\* r.map(lambda x: lambda y: y) analyzed: the outer lambda is tagged, the
\* inner one, its body, is not, and neither is y
C23_LambdaInTaggedLambda ==
    /\ snippet = Call(Attribute(r_, "map"),
                      <<Lambda(<<"x">>, Lambda(<<"y">>, Name("y")))>>, <<>>)
    /\ Analyzed
    /\ flags[<<2>>].is_reql
    /\ ~flags[<<2, 1>>].passed_to_reql
    /\ ~flags[<<2, 1>>].is_reql
    /\ ~flags[<<2, 1, 1>>].is_reql

====
